---- MODULE Spec2Model ----
(***************************************************************************)
(* Model of pdns-sensor's deduplicated ingestion queue                     *)
(* (pkg/models/queue.go), its validator (IsValidDomain / IsDomain), the    *)
(* Dedup Cache it talks to through CacheInterface, the Batch Submitter     *)
(* (pkg/submitter), the Delivery Client (pkg/clients/domainsproject) and   *)
(* the Subfinder source's queue-processing loop.                           *)
(*                                                                         *)
(* A Go string is a sequence of one-character strings, so that lowercasing *)
(* and the validator are computed character by character.                  *)
(***************************************************************************)
EXTENDS Integers, Sequences, FiniteSets, TLC

(***************************************************************************)
(* Bounds of the model.                                                    *)
(***************************************************************************)
NProcs == 2        \* goroutines calling Add / Get / Count on the shared queue
MaxAdmitted == 3   \* Add is not called any more once this many admissions are logged
MaxGets == 2       \* Get is not called any more once this many drains are logged
CacheTTL == 2      \* the queue's cacheTTL, in clock ticks
MaxScript == 4     \* longest sequence of Add calls of the sequential scenario
NumProducers == 2  \* M of the concurrent-producers scenario
PerProducer == 2   \* K of the concurrent-producers scenario
MaxList == 2       \* longest list the client scenario hands to SubmitDomains
MaxPosts == 2      \* requests the client scenario puts on the wire
MaxChunks == 2     \* the preloaded queue fills at most this many chunks
MaxTicks == 2      \* ticks of the submitter's ticker
MaxSweeps == 1     \* ticks of Subfinder's processDomains ticker
MaxFound == 1      \* hosts one enumeration reports
MaxInputLen == 3   \* every string up to this length is given to the validator
MaxLines == 2      \* lines a line-reading source is given
MaxSources == 2    \* longest sourceList handed to utils.Run
MaxAppends == 4    \* admissions of the memory scenario
SubfinderTTL == 2  \* Subfinder's cacheTTL, in units of time
MaxRounds == 2     \* ticks of processDomains' ticker in the Subfinder scenario

(***************************************************************************)
(* Program constants of the validator.                                     *)
(***************************************************************************)
MinDomainLen == 3
MaxDomainLen == 253
MaxLabelLen == 63

(***************************************************************************)
(* Program constants of the submitter and of the delivery client.          *)
(***************************************************************************)
maxBatchSize == 1024
StatusOK == 200

Max(a, b) == IF a >= b THEN a ELSE b
Min(a, b) == IF a <= b THEN a ELSE b

SubmitterProc == Max(NProcs, NumProducers) + 1   \* go submit.QueueSubmitter(queue)
SubfinderProc == Max(NProcs, NumProducers) + 2   \* go s.processDomains(ctx)
EnumProc == Max(NProcs, NumProducers) + 3        \* go func() { runnerInstance.RunEnumeration() }
Procs == 1..(Max(NProcs, NumProducers) + 3)      \* every goroutine of the model
Callers == 1..NProcs                    \* goroutines of the general specification
Producers == 1..NumProducers            \* goroutines of the producers scenario
NoOne == 0

(***************************************************************************)
(* Strings.                                                                *)
(***************************************************************************)
Upper == <<"A","B","C","D","E","F","G","H","I","J","K","L","M",
           "N","O","P","Q","R","S","T","U","V","W","X","Y","Z">>
Lower == <<"a","b","c","d","e","f","g","h","i","j","k","l","m",
           "n","o","p","q","r","s","t","u","v","w","x","y","z">>
Digits == {"0","1","2","3","4","5","6","7","8","9"}

Range(s) == {s[i] : i \in 1..Len(s)}

\* strings.ToLower on one ASCII character
ToLowerChar(c) ==
    IF \E i \in 1..Len(Upper) : Upper[i] = c
    THEN Lower[CHOOSE i \in 1..Len(Upper) : Upper[i] = c]
    ELSE c

\* strings.ToLower
ToLower(s) == [i \in 1..Len(s) |-> ToLowerChar(s[i])]

\* strings.HasSuffix
HasSuffix(s, suffix) ==
    /\ Len(s) >= Len(suffix)
    /\ SubSeq(s, Len(s) - Len(suffix) + 1, Len(s)) = suffix

\* strings.Split(s, "."): the pieces between the separators; [""] for "".
\* SplitFrom(s, i) is the pieces of s from position i on, one piece at a time
RECURSIVE SplitFrom(_, _)
SplitFrom(s, i) ==
    LET seps == {j \in i..Len(s) : s[j] = "."} IN
    IF seps = {} THEN <<SubSeq(s, i, Len(s))>>
    ELSE LET d == CHOOSE j \in seps : \A k \in seps : j <= k
         IN  <<SubSeq(s, i, d - 1)>> \o SplitFrom(s, d + 1)

Split(s) == SplitFrom(s, 1)

\* [a-z0-9]
IsAlnum(c) == c \in Range(Lower) \cup Digits

\* [a-z0-9-]
IsLabelChar(c) == IsAlnum(c) \/ c = "-"

\* [a-z0-9](?:[a-z0-9-]{0,61}[a-z0-9])?
MatchesLabel(t) ==
    /\ Len(t) >= 1
    /\ Len(t) <= MaxLabelLen
    /\ IsAlnum(t[1])
    /\ IsAlnum(t[Len(t)])
    /\ \A i \in 1..Len(t) : IsLabelChar(t[i])

\* [a-z0-9][a-z0-9-]{0,61}[a-z0-9]
MatchesLastLabel(t) ==
    /\ Len(t) >= 2
    /\ MatchesLabel(t)

\* the whole of t matches (?:label\.)+lastlabel
MatchesWhole(t) ==
    LET parts == Split(t) IN
    /\ Len(parts) >= 2
    /\ \A i \in 1..(Len(parts) - 1) : MatchesLabel(parts[i])
    /\ MatchesLastLabel(parts[Len(parts)])

\* reg.MatchString: the pattern is not anchored, any substring may match
IsDomain(s) ==
    \E i \in 1..Len(s) : \E j \in i..Len(s) : MatchesWhole(SubSeq(s, i, j))

DotLocal == <<".","l","o","c","a","l">>
DotLocalhost == <<".","l","o","c","a","l","h","o","s","t">>

\* variant: the reserved-suffix test is left out
IsValidDomainNoSuffix(s) ==
    IF Len(s) < MinDomainLen \/ Len(s) > MaxDomainLen THEN FALSE
    ELSE IF Len(Split(s)) < 2 THEN FALSE
    ELSE IsDomain(s)

\* variant: the upper length limit is left out
IsValidDomainNoMax(s) ==
    IF Len(s) < MinDomainLen THEN FALSE
    ELSE IF HasSuffix(s, DotLocal) \/ HasSuffix(s, DotLocalhost) THEN FALSE
    ELSE IF Len(Split(s)) < 2 THEN FALSE
    ELSE IsDomain(s)

IsValidDomain(s) ==
    IF Len(s) < MinDomainLen \/ Len(s) > MaxDomainLen THEN FALSE
    ELSE IF HasSuffix(s, DotLocal) \/ HasSuffix(s, DotLocalhost) THEN FALSE
    ELSE IF Len(Split(s)) < 2 THEN FALSE
    ELSE IsDomain(s)

(***************************************************************************)
(* Candidate strings the sources hand to Add.                              *)
(***************************************************************************)
Candidates ==
    { <<"a",".","c","o">>,
      <<"A",".","C","O">>,
      <<"X","b",".","i","o">>,
      <<>>,
      <<"a","b","c">>,
      <<"x">> \o DotLocal,
      <<"x">> \o DotLocalhost }

\* the candidates of the scenarios that need fewer of them
FewCandidates ==
    { <<"a",".","c","o">>,
      <<"A",".","C","O">>,
      <<"X","b",".","i","o">>,
      <<"a","b","c">>,
      <<"x">> \o DotLocal }

\* fmt.Sprintf("example%d-%d.com", id, j), shortened to "e<id>-<j>.co"
DigitChar(n) == CHOOSE c \in Digits : c = ToString(n)

\* fmt.Sprintf("%d", n)
RECURSIVE Decimal(_)
Decimal(n) ==
    IF n < 10 THEN <<DigitChar(n)>>
    ELSE Decimal(n \div 10) \o <<DigitChar(n % 10)>>

ProducerDomain(id, j) == <<"e", DigitChar(id), "-", DigitChar(j), ".", "c", "o">>

ProducerDomains == {ProducerDomain(id, j) : id \in Producers, j \in 0..(PerProducer - 1)}

\* the hosts Subfinder's enumeration may report
DiscoverHosts == {<<"w", ".", "a", ".", "c", "o">>}

\* the names in the DNS questions the capturing sources see
QuestionNames ==
    { <<"a", ".", "c", "o">>,
      <<"A", ".", "C", "O">>,
      <<"_", "a", ".", "c", "o">>,
      <<"a", "b", "c">>,
      <<"x">> \o DotLocal }

\* every string the model may look up in the cache
Inputs == Candidates \cup ProducerDomains \cup DiscoverHosts \cup QuestionNames
Keys == Inputs \cup {ToLower(c) : c \in Inputs}

\* strings.TrimSuffix(domain, ".")
TrimDot(d) == IF Len(d) > 0 /\ d[Len(d)] = "." THEN SubSeq(d, 1, Len(d) - 1) ELSE d

\* getParentDomain: publicsuffix.Parse, then SLD + "." + TLD, for names under
\* a one-label public suffix; "" when there is no second-level label
GetParentDomain(d) ==
    LET parts == Split(TrimDot(d))
        n == Len(parts)
    IN  IF n < 2 \/ \E i \in 1..n : parts[i] = <<>> THEN <<>>
        ELSE parts[n - 1] \o <<".">> \o parts[n]

\* the parent domains processDomains may come to
Parents == {GetParentDomain(k) : k \in Keys} \ {<<>>}

\* the age of a mark that does not exist
Unmarked == -1


(***************************************************************************)
(* State.                                                                  *)
(***************************************************************************)
VARIABLES
    Domains,    \* q.Domains, the in-memory collection
    Lock,       \* q.Lock: the goroutine holding the mutex, or NoOne
    cache,      \* the Dedup Cache: remaining lifetime of every key, 0 = absent
    cacheUp,    \* FALSE while the cache service is unavailable
    pc,         \* where each goroutine is inside Add / Get / Count
    arg,        \* the argument of the Add call in progress
    domain,     \* Add's local variable domain (after strings.ToLower)
    tmp,        \* the slice a goroutine has built: append(...) or Get's copy
    ret,        \* the value Count is about to return
    snap,       \* history: collection and cache as Add's cache.Get found them
    path,       \* history: the return path the Add in progress has taken
    admitted,   \* history: every domain appended to q.Domains, in order
    drained,    \* history: the results of the Gets that have returned, concatenated
    gets,       \* history: how many Gets have returned
    lastCut,    \* history: Len(admitted) when the latest Get took the lock
    span,       \* history: <<lastCut before, Len(admitted)>> at Get's lock
    epochAdm,   \* history: admissions of a key since its cache entry last expired
    setexLog,   \* history: the <<key, expires>> of every cache.SetEx call
    obs,        \* observer: a run of Add(D) calls that began with a cache miss
    callLog,    \* scenario: the arguments of the Add calls made so far
    sent,       \* scenario: how many of its domains each producer has added
    apiURL,     \* d.APIURL of the DomainsProjectClient
    cpc,        \* where the goroutine inside SubmitDomains is
    cArg,       \* the domains argument of the SubmitDomains call in progress
    cErr,       \* the error SubmitDomains is about to return
    reply,      \* what client.Do came back with: a status code or NoResponse
    lastReq,    \* the latest request put on the wire
    posts,      \* history: how many requests have been put on the wire
    postsAtCall,\* history: posts when the SubmitDomains call in progress began
    spc,        \* where the submitter goroutine is inside QueueSubmitter
    sDomains,   \* QueueSubmitter's local variable domains
    sI,         \* QueueSubmitter's loop variable i
    ticks,      \* how many times the submitter's ticker has fired
    calls,      \* history: the argument of every SubmitDomains call, in order
    errs,       \* history: the error of every SubmitDomains call that returned
    tickStart,  \* history: Len(calls) when the tick in progress began
    getters,    \* history: the goroutines that have called Get
    sfpc,       \* where Subfinder's processDomains goroutine is
    sfDomains,  \* processDomains: the drained domains not yet iterated over
    sfFound,    \* how many hosts the enumeration in progress has reported
    processedCache, \* s.processedCache: the age of every parent domain's mark
    sweeps,     \* how many times processDomains' ticker has fired
    sfCtx,      \* the context made in Subfinder's Start: live, or done after cancelFunc
    enumLive,   \* how many RunEnumeration goroutines are running
    cleanupLive,\* TRUE while the cleanupCache goroutine is running
    sfStopped,  \* how Subfinder's Stop returned: no (not yet), ok, timeout
    sinceMark,  \* history: the time since the latest markProcessed of every parent
    tdFields,   \* TCPDump.Start: the fields of the current line not yet looked at
    extracted,  \* history: the candidates the sources have extracted, after the trim
    logFile,    \* the lines of the file at m.logFile, or Missing
    mkpc,       \* where MikrotikLog is: new, started, inside Stop, stopped
    mkLine,     \* MikrotikLog.Stop: how many lines the scanner has returned
    mkFields,   \* MikrotikLog.Stop: the fields of the current line not yet looked at
    sourceList, \* the sourceList argument of utils.Run
    rpc,        \* where the goroutine inside utils.Run is
    rI,         \* utils.Run: how many sources Stop has been invoked on
    expired,    \* TRUE once the deadline of the shutdown context has passed
    vIn,        \* the string given to IsValidDomain
    vOut,       \* what IsValidDomain returned for it, <<>> before the call
    heap,       \* memory: the backing arrays allocated so far, each a sequence of cells
    qd,         \* memory: the slice header of q.Domains (array, len, cap)
    held,       \* memory: the slice header Get returned to its latest receiver
    heldVal     \* history: what that slice held on return, with the receiver's own writes

queueVars == <<Domains, Lock, cache, cacheUp, pc, arg, domain, tmp, ret>>
historyVars == <<snap, path, admitted, drained, gets, lastCut, span, epochAdm, setexLog>>
clientVars == <<apiURL, cpc, cArg, cErr, reply, lastReq, posts, postsAtCall>>
submitterVars == <<spc, sDomains, sI, ticks, calls, errs, tickStart, getters>>
subfinderVars == <<sfpc, sfDomains, sfFound, processedCache, sweeps, sfCtx, enumLive, cleanupLive, sfStopped, sinceMark>>
sourceVars == <<tdFields, extracted>>
mikrotikVars == <<logFile, mkpc, mkLine, mkFields>>
runVars == <<sourceList, rpc, rI, expired>>
validatorVars == <<vIn, vOut>>
memoryVars == <<heap, qd, held, heldVal>>
lifecycleVars == <<sourceVars, mikrotikVars, runVars, validatorVars, memoryVars>>
unitVars == <<clientVars, submitterVars, subfinderVars, lifecycleVars>>
scenarioVars == <<callLog, sent, unitVars>>
vars == <<queueVars, historyVars, obs, scenarioVars>>

EmptyCache == [k \in Keys |-> 0]
NoSnap == [doms |-> <<>>, cache |-> EmptyCache, setex |-> 0]
NoObs == [key |-> <<>>, inc |-> 0, calls |-> 0, raws |-> {}, fresh |-> FALSE]

(***************************************************************************)
(* The Delivery Client's configuration and its values on the wire.         *)
(***************************************************************************)
DefaultAPIURL == "https://api.domainsproject.org/api/ua/passive_dns"
CustomURL == "https://custom.api.example.com"

\* the apiURL arguments main may pass to NewDomainsProjectClient
ConfiguredURLs == {"", CustomURL}

\* NewDomainsProjectClient: if apiURL == "" { apiURL = DefaultAPIURL }
NewDomainsProjectClient(url) == IF url = "" THEN DefaultAPIURL ELSE url

NoResponse == 0   \* client.Do returned an error instead of a response
NoReq == [method |-> "", url |-> "", contentType |-> "", body |-> <<>>]

\* the error values SubmitDomains returns: nil, the error of client.Do, or
\* fmt.Errorf("failed to submit domains, status code: %d", resp.StatusCode)
Nil == [kind |-> "nil", msg |-> <<>>]
TransportErr == [kind |-> "transport", msg |-> <<>>]
StatusMsg == <<"s","t","a","t","u","s"," ","c","o","d","e",":"," ">>
StatusErr(code) == [kind |-> "status", msg |-> StatusMsg \o Decimal(code)]

\* a slice header without a backing array: nil, or make([]string, 0)
NilSlice == [arr |-> 0, len |-> 0, cap |-> 0]

\* every variable but the collection, its admission log, the client's URL,
\* the log file, the source list and the validator's input
Fresh ==
    /\ Lock = NoOne
    /\ cache = EmptyCache
    /\ cacheUp = TRUE
    /\ pc = [p \in Procs |-> "idle"]
    /\ arg = [p \in Procs |-> <<>>]
    /\ domain = [p \in Procs |-> <<>>]
    /\ tmp = [p \in Procs |-> <<>>]
    /\ ret = [p \in Procs |-> 0]
    /\ snap = [p \in Procs |-> NoSnap]
    /\ path = [p \in Procs |-> "none"]
    /\ drained = <<>>
    /\ gets = 0
    /\ lastCut = 0
    /\ span = [p \in Procs |-> <<0, 0>>]
    /\ epochAdm = [k \in Keys |-> 0]
    /\ setexLog = <<>>
    /\ obs = NoObs
    /\ callLog = <<>>
    /\ sent = [p \in Procs |-> 0]
    /\ cpc = "idle"
    /\ cArg = <<>>
    /\ cErr = Nil
    /\ reply = NoResponse
    /\ lastReq = NoReq
    /\ posts = 0
    /\ postsAtCall = 0
    /\ spc = "wait"
    /\ sDomains = <<>>
    /\ sI = 0
    /\ ticks = 0
    /\ calls = <<>>
    /\ errs = <<>>
    /\ tickStart = 0
    /\ getters = {}
    /\ sfpc = "wait"
    /\ sfDomains = <<>>
    /\ sfFound = 0
    /\ processedCache = [parent \in Parents |-> Unmarked]
    /\ sfCtx = "live"
    /\ enumLive = 0
    /\ cleanupLive = TRUE
    /\ sfStopped = "no"
    /\ sinceMark = [parent \in Parents |-> Unmarked]
    /\ sweeps = 0
    /\ tdFields = <<>>
    /\ extracted = {}
    /\ mkpc = "new"
    /\ mkLine = 0
    /\ mkFields = <<>>
    /\ rpc = "wait"
    /\ rI = 0
    /\ expired = FALSE
    /\ vOut = <<>>
    /\ heap = <<>>
    /\ qd = NilSlice
    /\ held = NilSlice
    /\ heldVal = <<>>

\* no log file, no source handed to utils.Run, no string at the validator
Unused ==
    /\ logFile = <<>>
    /\ sourceList = <<>>
    /\ vIn = <<>>

\* NewDomainQueue with an empty cache and a client with the default URL; no
\* call has been made yet
Init ==
    /\ Fresh
    /\ Domains = <<>>
    /\ admitted = <<>>
    /\ apiURL = NewDomainsProjectClient("")
    /\ Unused

(***************************************************************************)
(* The Dedup Cache behind CacheInterface.                                  *)
(***************************************************************************)
\* variant: the lookup never finds a key
CacheGetNever(key) == FALSE

\* cache.Get(key): ok iff the key is present and not expired
CacheGet(key) == cacheUp /\ cache[key] > 0

\* cache.SetEx(key, true, expires)
CacheSetEx(key, expires) ==
    IF cacheUp THEN [cache EXCEPT ![key] = expires] ELSE cache

\* the cache's clock advances by one unit: every live entry ages, entries
\* whose lifetime is used up expire
Tick ==
    /\ \E k \in Keys : cache[k] > 0
    /\ cache' = [k \in Keys |-> IF cache[k] > 0 THEN cache[k] - 1 ELSE 0]
    /\ epochAdm' = [k \in Keys |-> IF cache[k] = 1 THEN 0 ELSE epochAdm[k]]
    /\ UNCHANGED <<Domains, Lock, cacheUp, pc, arg, domain, tmp, ret>>
    /\ UNCHANGED <<snap, path, admitted, drained, gets, lastCut, span, setexLog>>

\* the cache service becomes unavailable: every Get misses, SetEx is lost
CacheFail ==
    /\ cacheUp
    /\ cacheUp' = FALSE
    /\ UNCHANGED <<Domains, Lock, cache, pc, arg, domain, tmp, ret>>
    /\ UNCHANGED historyVars

CacheRecover ==
    /\ ~cacheUp
    /\ cacheUp' = TRUE
    /\ UNCHANGED <<Domains, Lock, cache, pc, arg, domain, tmp, ret>>
    /\ UNCHANGED historyVars

(***************************************************************************)
(* sync.Mutex                                                              *)
(***************************************************************************)
\* variant: Lock() does not wait for the holder
MutexFreeAlways(p) == TRUE

\* q.Lock.Lock() returns only when nobody holds the mutex
MutexFree(p) == Lock = NoOne

(***************************************************************************)
(* DomainQueue.Add                                                         *)
(***************************************************************************)
\* variant: the argument is not lowercased
AddLockRaw(p, raw) ==
    /\ pc[p] = "idle"
    /\ MutexFree(p)
    /\ Lock' = p
    /\ arg' = [arg EXCEPT ![p] = raw]
    /\ domain' = [domain EXCEPT ![p] = raw]
    /\ pc' = [pc EXCEPT ![p] = "add_cache"]
    /\ UNCHANGED <<Domains, cache, cacheUp, tmp, ret>>
    /\ UNCHANGED historyVars

\* q.Lock.Lock(); domain = strings.ToLower(domain)
AddLock(p, raw) ==
    /\ pc[p] = "idle"
    /\ MutexFree(p)
    /\ Lock' = p
    /\ arg' = [arg EXCEPT ![p] = raw]
    /\ domain' = [domain EXCEPT ![p] = ToLower(raw)]
    /\ pc' = [pc EXCEPT ![p] = "add_cache"]
    /\ UNCHANGED <<Domains, cache, cacheUp, tmp, ret>>
    /\ UNCHANGED historyVars

\* variant: a cache hit refreshes the key before returning
AddCheckRefresh(p) ==
    /\ pc[p] = "add_cache"
    /\ snap' = [snap EXCEPT ![p] = [doms |-> Domains, cache |-> cache, setex |-> Len(setexLog)]]
    /\ IF CacheGet(domain[p])
       THEN /\ pc' = [pc EXCEPT ![p] = "add_setex"]
            /\ path' = [path EXCEPT ![p] = "hit"]
       ELSE IF ~IsValidDomain(domain[p])
       THEN /\ pc' = [pc EXCEPT ![p] = "add_unlock"]
            /\ path' = [path EXCEPT ![p] = "invalid"]
       ELSE /\ pc' = [pc EXCEPT ![p] = "add_scan"]
            /\ path' = [path EXCEPT ![p] = "miss"]
    /\ UNCHANGED <<Domains, Lock, cache, cacheUp, arg, domain, tmp, ret>>
    /\ UNCHANGED <<admitted, drained, gets, lastCut, span, epochAdm, setexLog>>

\* if _, ok := q.cache.Get(domain); ok { return }
\* if !utils.IsValidDomain(domain) { return }
AddCheck(p) ==
    /\ pc[p] = "add_cache"
    /\ snap' = [snap EXCEPT ![p] = [doms |-> Domains, cache |-> cache, setex |-> Len(setexLog)]]
    /\ IF CacheGet(domain[p])
       THEN /\ pc' = [pc EXCEPT ![p] = "add_unlock"]
            /\ path' = [path EXCEPT ![p] = "hit"]
       ELSE IF ~IsValidDomain(domain[p])
       THEN /\ pc' = [pc EXCEPT ![p] = "add_unlock"]
            /\ path' = [path EXCEPT ![p] = "invalid"]
       ELSE /\ pc' = [pc EXCEPT ![p] = "add_scan"]
            /\ path' = [path EXCEPT ![p] = "miss"]
    /\ UNCHANGED <<Domains, Lock, cache, cacheUp, arg, domain, tmp, ret>>
    /\ UNCHANGED <<admitted, drained, gets, lastCut, span, epochAdm, setexLog>>

\* variant: the scan looks at the newest entry only
InDomainsLastOnly(d) == Len(Domains) > 0 /\ Domains[Len(Domains)] = d

\* for _, d := range q.Domains { if d == domain { return } }
InDomains(d) == \E i \in 1..Len(Domains) : Domains[i] = d

\* variant: the return on a duplicate leaves the mutex locked
AddScanNoUnlock(p) ==
    /\ pc[p] = "add_scan"
    /\ IF InDomains(domain[p])
       THEN /\ pc' = [pc EXCEPT ![p] = "idle"]
            /\ path' = [path EXCEPT ![p] = "none"]
       ELSE /\ pc' = [pc EXCEPT ![p] = "add_append"]
            /\ path' = path
    /\ UNCHANGED <<Domains, Lock, cache, cacheUp, arg, domain, tmp, ret>>
    /\ UNCHANGED <<snap, admitted, drained, gets, lastCut, span, epochAdm, setexLog>>

AddScan(p) ==
    /\ pc[p] = "add_scan"
    /\ IF InDomains(domain[p])
       THEN /\ pc' = [pc EXCEPT ![p] = "add_unlock"]
            /\ path' = [path EXCEPT ![p] = "dup"]
       ELSE /\ pc' = [pc EXCEPT ![p] = "add_append"]
            /\ path' = path
    /\ UNCHANGED <<Domains, Lock, cache, cacheUp, arg, domain, tmp, ret>>
    /\ UNCHANGED <<snap, admitted, drained, gets, lastCut, span, epochAdm, setexLog>>

\* variant: the new entry is put in front
AddPrepend(p) ==
    /\ pc[p] = "add_append"
    /\ tmp' = [tmp EXCEPT ![p] = <<domain[p]>> \o Domains]
    /\ pc' = [pc EXCEPT ![p] = "add_store"]
    /\ UNCHANGED <<Domains, Lock, cache, cacheUp, arg, domain, ret>>
    /\ UNCHANGED historyVars

\* append(q.Domains, domain): the new slice is built from the slice read now
AddAppend(p) ==
    /\ pc[p] = "add_append"
    /\ tmp' = [tmp EXCEPT ![p] = Append(Domains, domain[p])]
    /\ pc' = [pc EXCEPT ![p] = "add_store"]
    /\ UNCHANGED <<Domains, Lock, cache, cacheUp, arg, domain, ret>>
    /\ UNCHANGED historyVars

\* q.Domains = <the new slice>
AddStore(p) ==
    /\ pc[p] = "add_store"
    /\ Domains' = tmp[p]
    /\ tmp' = [tmp EXCEPT ![p] = <<>>]
    /\ pc' = [pc EXCEPT ![p] = "add_setex"]
    /\ path' = [path EXCEPT ![p] = "admit"]
    /\ admitted' = Append(admitted, domain[p])
    /\ epochAdm' = [epochAdm EXCEPT ![domain[p]] = @ + 1]
    /\ UNCHANGED <<Lock, cache, cacheUp, arg, domain, ret>>
    /\ UNCHANGED <<snap, drained, gets, lastCut, span, setexLog>>

\* q.cache.SetEx(domain, true, q.cacheTTL)
AddSetEx(p) ==
    /\ pc[p] = "add_setex"
    /\ cache' = CacheSetEx(domain[p], CacheTTL)
    /\ setexLog' = Append(setexLog, <<domain[p], CacheTTL>>)
    /\ pc' = [pc EXCEPT ![p] = "add_unlock"]
    /\ UNCHANGED <<Domains, Lock, cacheUp, arg, domain, tmp, ret>>
    /\ UNCHANGED <<snap, path, admitted, drained, gets, lastCut, span, epochAdm>>

\* defer q.Lock.Unlock(); Add returns
AddUnlock(p) ==
    /\ pc[p] = "add_unlock"
    /\ Lock' = NoOne
    /\ pc' = [pc EXCEPT ![p] = "idle"]
    /\ arg' = [arg EXCEPT ![p] = <<>>]
    /\ domain' = [domain EXCEPT ![p] = <<>>]
    /\ snap' = [snap EXCEPT ![p] = NoSnap]
    /\ path' = [path EXCEPT ![p] = "none"]
    /\ UNCHANGED <<Domains, cache, cacheUp, tmp, ret>>
    /\ UNCHANGED <<admitted, drained, gets, lastCut, span, epochAdm, setexLog>>

(***************************************************************************)
(* DomainQueue.Get                                                         *)
(***************************************************************************)
\* q.Lock.Lock()
GetLock(p) ==
    /\ pc[p] = "idle"
    /\ MutexFree(p)
    /\ Lock' = p
    /\ pc' = [pc EXCEPT ![p] = "get_copy"]
    /\ span' = [span EXCEPT ![p] = <<lastCut, Len(admitted)>>]
    /\ lastCut' = Len(admitted)
    /\ UNCHANGED <<Domains, cache, cacheUp, arg, domain, tmp, ret>>
    /\ UNCHANGED <<snap, path, admitted, drained, gets, epochAdm, setexLog>>

\* variant: the copy is one element short
CopyOfShort(s) == [i \in 1..(Len(s) - 1) |-> s[i]]

\* domains := make([]string, len(q.Domains)); copy(domains, q.Domains)
CopyOf(s) == [i \in 1..Len(s) |-> s[i]]

GetCopy(p) ==
    /\ pc[p] = "get_copy"
    /\ tmp' = [tmp EXCEPT ![p] = CopyOf(Domains)]
    /\ pc' = [pc EXCEPT ![p] = "get_clear"]
    /\ UNCHANGED <<Domains, Lock, cache, cacheUp, arg, domain, ret>>
    /\ UNCHANGED historyVars

\* q.Domains = nil
GetClear(p) ==
    /\ pc[p] = "get_clear"
    /\ Domains' = <<>>
    /\ pc' = [pc EXCEPT ![p] = "get_unlock"]
    /\ UNCHANGED <<Lock, cache, cacheUp, arg, domain, tmp, ret>>
    /\ UNCHANGED historyVars

\* defer q.Lock.Unlock(); return domains
GetUnlock(p) ==
    /\ pc[p] = "get_unlock"
    /\ Lock' = NoOne
    /\ drained' = drained \o tmp[p]
    /\ gets' = gets + 1
    /\ tmp' = [tmp EXCEPT ![p] = <<>>]
    /\ span' = [span EXCEPT ![p] = <<0, 0>>]
    /\ pc' = [pc EXCEPT ![p] = "idle"]
    /\ UNCHANGED <<Domains, cache, cacheUp, arg, domain, ret>>
    /\ UNCHANGED <<snap, path, admitted, lastCut, epochAdm, setexLog>>

(***************************************************************************)
(* DomainQueue.Count                                                       *)
(***************************************************************************)
\* q.Lock.Lock()
CountLock(p) ==
    /\ pc[p] = "idle"
    /\ MutexFree(p)
    /\ Lock' = p
    /\ pc' = [pc EXCEPT ![p] = "count_read"]
    /\ UNCHANGED <<Domains, cache, cacheUp, arg, domain, tmp, ret>>
    /\ UNCHANGED historyVars

\* len(q.Domains)
CountRead(p) ==
    /\ pc[p] = "count_read"
    /\ ret' = [ret EXCEPT ![p] = Len(Domains)]
    /\ pc' = [pc EXCEPT ![p] = "count_unlock"]
    /\ UNCHANGED <<Domains, Lock, cache, cacheUp, arg, domain, tmp>>
    /\ UNCHANGED historyVars

\* defer q.Lock.Unlock(); return
CountUnlock(p) ==
    /\ pc[p] = "count_unlock"
    /\ Lock' = NoOne
    /\ ret' = [ret EXCEPT ![p] = 0]
    /\ pc' = [pc EXCEPT ![p] = "idle"]
    /\ UNCHANGED <<Domains, cache, cacheUp, arg, domain, tmp>>
    /\ UNCHANGED historyVars

(***************************************************************************)
(* Observer of one run of Add(D) calls: it may start at any Add(D) whose   *)
(* cache.Get misses (D valid), counts the appends of D and the calls made  *)
(* from then on, and ends when a Get takes the lock.                       *)
(***************************************************************************)
Observing == obs.calls > 0

ObsOnCheck(p) ==
    \E start \in BOOLEAN :
        obs' = IF path'[p] = "miss" /\ (start \/ ~Observing)
               THEN [key |-> ToLower(arg[p]), inc |-> 0, calls |-> 1,
                     raws |-> {arg[p]}, fresh |-> ~InDomains(ToLower(arg[p]))]
               ELSE IF Observing /\ obs.key = ToLower(arg[p])
               THEN [obs EXCEPT !.calls = Min(2, @ + 1), !.raws = @ \cup {arg[p]}]
               ELSE obs

ObsOnStore(p) ==
    obs' = IF Observing /\ obs.key = ToLower(arg[p])
           THEN [obs EXCEPT !.inc = @ + 1]
           ELSE obs

ObsOnGet == obs' = NoObs

(***************************************************************************)
(* General specification: NProcs goroutines call Add, Get and Count in any *)
(* order with any candidate, while the cache's clock advances.             *)
(***************************************************************************)
\* the steps inside a call that neither the observer nor a scenario watches
QueueStep(p) ==
    \/ AddScan(p)
    \/ AddAppend(p)
    \/ AddSetEx(p)
    \/ AddUnlock(p)
    \/ GetCopy(p)
    \/ GetClear(p)
    \/ GetUnlock(p)
    \/ CountRead(p)
    \/ CountUnlock(p)

CallAdd(p, raw) ==
    /\ Len(admitted) < MaxAdmitted
    /\ AddLock(p, raw)
    /\ UNCHANGED <<obs, scenarioVars>>

CallGet(p) ==
    /\ gets < MaxGets
    /\ GetLock(p)
    /\ ObsOnGet
    /\ UNCHANGED scenarioVars

CallCount(p) ==
    /\ CountLock(p)
    /\ UNCHANGED <<obs, scenarioVars>>

ObservedCheck(p) == AddCheck(p) /\ ObsOnCheck(p) /\ UNCHANGED scenarioVars

ObservedStore(p) == AddStore(p) /\ ObsOnStore(p) /\ UNCHANGED scenarioVars

Inside(p) == QueueStep(p) /\ UNCHANGED <<obs, scenarioVars>>

ClockTick == Tick /\ UNCHANGED <<obs, scenarioVars>>

Next ==
    \/ \E p \in Callers : \E raw \in Candidates : CallAdd(p, raw)
    \/ \E p \in Callers : CallGet(p)
    \/ \E p \in Callers : CallCount(p)
    \/ \E p \in Callers : ObservedCheck(p)
    \/ \E p \in Callers : ObservedStore(p)
    \/ \E p \in Callers : Inside(p)
    \/ ClockTick

Spec == Init /\ [][Next]_vars

(***************************************************************************)
(* Properties of the queue under the general specification.                *)
(***************************************************************************)
AddPcs == {"add_cache", "add_scan", "add_append", "add_store", "add_setex", "add_unlock"}

\* some Add of (a spelling of) key d has taken the lock and not returned yet
InFlight(d) == \E p \in Procs : pc[p] \in AddPcs /\ ToLower(arg[p]) = d

Occurrences(s, d) == Cardinality({i \in 1..Len(s) : s[i] = d})

Quiescent == \A p \in Procs : pc[p] = "idle"

\* C1 as stated: whenever two or more Add(D) calls, the first of which ran
\* with valid D absent from the cache, have returned with no Get in between,
\* D has been appended exactly once since that first call began.
C1_AsStated ==
    (Observing /\ obs.calls >= 2 /\ ~InFlight(obs.key)) => obs.inc = 1

\* C1 amended: whenever two or more Add(D) calls, the first of which ran with
\* valid D absent from the cache and from the collection, have returned with
\* no Get in between, D has been appended exactly once since that first call
\* began and the collection holds it exactly once.
C1_IdempotentAdmission ==
    (Observing /\ obs.fresh /\ obs.calls >= 2 /\ ~InFlight(obs.key))
        => (obs.inc = 1 /\ Occurrences(Domains, obs.key) = 1)

C1_Witness ==
    /\ Observing /\ obs.fresh /\ obs.calls >= 2 /\ ~InFlight(obs.key)
    /\ obs.inc = 1

\* C2: an Add whose cache.Get found the lowercased key present (lifetime > 0)
\* returns with the collection as it was, no SetEx call made and no key's
\* lifetime raised.
C2_CacheGatedAdmission ==
    \A p \in Procs :
        (pc[p] = "add_unlock" /\ snap[p].cache[domain[p]] > 0)
            => /\ Domains = snap[p].doms
               /\ Len(setexLog) = snap[p].setex
               /\ \A k \in Keys : cache[k] <= snap[p].cache[k]

\* an Add is about to return after a cache hit on a key that has already been
\* drained from the collection
C2_Witness ==
    \E p \in Procs :
        /\ pc[p] = "add_unlock"
        /\ snap[p].cache[domain[p]] > 0
        /\ ~InDomains(domain[p])
        /\ Domains # <<>>

\* the candidates the claim lists: empty, single label, reserved suffix
ListedInvalid(d) ==
    \/ d = <<>>
    \/ "." \notin Range(d)
    \/ HasSuffix(d, DotLocal)
    \/ HasSuffix(d, DotLocalhost)

\* C3: an Add whose lowercased argument the validator rejects (in particular
\* the empty string, a single-label name, a name ending in .local or
\* .localhost) returns with the collection and the cache as they were.
C3_ValidationGate ==
    \A p \in Procs :
        (pc[p] = "add_unlock" /\ (ListedInvalid(domain[p]) \/ ~IsValidDomain(domain[p])))
            => /\ Domains = snap[p].doms
               /\ Len(setexLog) = snap[p].setex
               /\ \A k \in Keys : cache[k] <= snap[p].cache[k]

\* an Add of a name with a reserved suffix is about to return while the
\* collection is not empty
C3_Witness ==
    \E p \in Procs :
        /\ pc[p] = "add_unlock"
        /\ HasSuffix(domain[p], DotLocal)
        /\ Domains # <<>>

AllLowercase(s) == \A i \in 1..Len(s) : ToLower(s[i]) = s[i]

\* C4: once Add calls with two different spellings of one domain have
\* returned with no Get in between (the first of the run having missed the
\* cache), the collection holds exactly one entry that lowercases to the
\* domain and it is the lowercase form; every entry ever stored in the
\* collection or returned by Get is all-lowercase.
C4_CaseFolding ==
    /\ (Observing /\ Cardinality(obs.raws) >= 2 /\ ~InFlight(obs.key))
          => /\ Occurrences(Domains, obs.key) = 1
             /\ \A i \in 1..Len(Domains) :
                    ToLower(Domains[i]) = obs.key => Domains[i] = obs.key
    /\ AllLowercase(Domains)
    /\ AllLowercase(drained)

\* both spellings were added and Count() is 1
C4_Witness ==
    /\ Observing /\ Cardinality(obs.raws) >= 2 /\ ~InFlight(obs.key)
    /\ Len(Domains) = 1
    /\ Domains[1] = obs.key

\* C5: a Get that is about to return holds exactly the domains admitted
\* between the previous Get's lock and its own, in admission order, and has
\* left the collection empty; while nobody holds the lock the collection is
\* exactly what was admitted since the latest Get.
C5_DrainAtomicity ==
    /\ \A p \in Procs :
          pc[p] = "get_unlock"
              => /\ tmp[p] = SubSeq(admitted, span[p][1] + 1, span[p][2])
                 /\ Domains = <<>>
    /\ Lock = NoOne => Domains = SubSeq(admitted, lastCut + 1, Len(admitted))

\* a Get that follows an earlier non-empty Get returns two domains
C5_Witness ==
    \E p \in Procs :
        /\ pc[p] = "get_unlock"
        /\ span[p][1] > 0
        /\ Len(tmp[p]) >= 2

\* C9: between two expiries of its cache entry a domain is admitted at most
\* once, and the append of an admission happens only while the key is absent
\* from the cache.
C9_AtMostOncePerWindow ==
    /\ \A k \in Keys : epochAdm[k] <= 1
    /\ \A p \in Procs : pc[p] = "add_store" => cache[domain[p]] = 0

\* a domain has been admitted a second time, after its entry expired
C9_Witness ==
    \E k \in Keys : Occurrences(admitted, k) >= 2 /\ epochAdm[k] = 1 /\ cache[k] > 0

\* C10: whenever no call is in progress, the results of the Gets so far, in
\* the order the Gets returned, followed by the collection, are exactly the
\* admissions so far.
C10_NoLossNoDuplication ==
    Quiescent => drained \o Domains = admitted

\* two drains have returned two admissions and a later admission is waiting
C10_Witness ==
    /\ Quiescent
    /\ gets = 2
    /\ Len(drained) = 2
    /\ Domains # <<>>

\* the positions between q.Lock.Lock() and the deferred q.Lock.Unlock()
CriticalPcs ==
    AddPcs \cup {"get_copy", "get_clear", "get_unlock", "count_read", "count_unlock"}

\* how many steps a call at this position is away from having released the lock
StepsToUnlock(l) ==
    CASE l = "idle" -> 0
      [] l \in {"add_unlock", "get_unlock", "count_unlock"} -> 1
      [] l \in {"add_setex", "get_clear", "count_read"} -> 2
      [] l \in {"add_store", "get_copy"} -> 3
      [] l = "add_append" -> 4
      [] l = "add_scan" -> 5
      [] l = "add_cache" -> 6

\* goroutine p can take the next step of the call it is in
CanStep(p) == ENABLED (ObservedCheck(p) \/ ObservedStore(p) \/ Inside(p))

\* C28: at most one goroutine is between Lock and Unlock of an Add, Get or
\* Count, and it is the holder of the mutex; the mutex is free exactly when no
\* call is in progress; the holder can always take its next step, and every
\* step of a call brings it closer to its Unlock, which every return path of
\* Add (cache hit, rejection, duplicate, admission), Get and Count goes through.
C28_LockDiscipline ==
    /\ [](/\ Cardinality({p \in Procs : pc[p] \in CriticalPcs}) <= 1
          /\ \A p \in Procs : pc[p] \in CriticalPcs <=> Lock = p
          /\ \A p \in Procs : pc[p] \in CriticalPcs \cup {"idle"}
          /\ Lock = NoOne <=> Quiescent
          /\ \A p \in Callers : Lock = p => CanStep(p))
    /\ [][\A p \in Procs :
            pc'[p] # pc[p] =>
                \/ pc[p] = "idle" /\ Lock = NoOne /\ Lock' = p
                \/ /\ StepsToUnlock(pc'[p]) < StepsToUnlock(pc[p])
                   /\ Lock' = IF pc'[p] = "idle" THEN NoOne ELSE p]_vars

\* an Add that found a duplicate in the scan is about to release the mutex
\* while the other goroutine, back from its own calls, waits with nothing held
C28_Witness ==
    \E p \in Callers :
        /\ pc[p] = "add_unlock"
        /\ path[p] = "dup"
        /\ Lock = p
        /\ gets > 0
        /\ \A q \in Callers \ {p} : pc[q] = "idle"

\* the next step of the call goroutine p is in is a call of the cache:
\* q.cache.Get at add_cache, q.cache.SetEx at add_setex
AtCacheCall(p) == pc[p] \in {"add_cache", "add_setex"}

\* C29: while a goroutine holds the mutex inside Add or Get, it is at no call
\* of the Dedup Cache (and no call of the Delivery Client): all it does between
\* Lock and Unlock is in-memory work.
C29_NoIOUnderLock ==
    \A p \in Procs : Lock = p => ~AtCacheCall(p)

\* the cache has not been written since Add's cache.Get: no SetEx call was
\* made and no key has more lifetime left than it had
CacheUnwritten(p) ==
    /\ Len(setexLog) = snap[p].setex
    /\ \A k \in Keys : cache[k] <= snap[p].cache[k]

\* C31: an Add that appends goes on to exactly one cache.SetEx call, with the
\* lowercased domain as key and the configured TTL, before it releases the
\* mutex it appended under; an Add that returns on a cache hit, an invalid
\* name or a duplicate has written neither the collection nor the cache; so
\* the SetEx calls are, in order, the admissions.
C31_AdmissionCouplesQueueAndCache ==
    /\ \A p \in Procs :
          /\ pc[p] = "add_setex" =>
                /\ Lock = p
                /\ path[p] = "admit"
                /\ Domains = Append(snap[p].doms, ToLower(arg[p]))
                /\ CacheUnwritten(p)
          /\ (pc[p] = "add_unlock" /\ path[p] = "admit") =>
                /\ Lock = p
                /\ Domains = Append(snap[p].doms, ToLower(arg[p]))
                /\ Len(setexLog) = snap[p].setex + 1
                /\ setexLog[Len(setexLog)] = <<ToLower(arg[p]), CacheTTL>>
          /\ (pc[p] = "add_unlock" /\ path[p] \in {"hit", "invalid", "dup"}) =>
                /\ Domains = snap[p].doms
                /\ CacheUnwritten(p)
    /\ Len(setexLog) = Len(admitted) - Cardinality({p \in Procs : pc[p] = "add_setex"})
    /\ \A i \in 1..Len(setexLog) : setexLog[i] = <<admitted[i], CacheTTL>>

\* an Add of a mixed-case spelling has appended to a non-empty collection and
\* made its SetEx call, and still holds the mutex
C31_Witness ==
    \E p \in Callers :
        /\ pc[p] = "add_unlock"
        /\ path[p] = "admit"
        /\ arg[p] # ToLower(arg[p])
        /\ snap[p].doms # <<>>
        /\ cache[ToLower(arg[p])] = CacheTTL
        /\ \E q \in Callers \ {p} : pc[q] = "idle"

\* the Add goroutine p is in found its domain admitted before and no longer
\* in the collection: the domain was admitted and drained
AdmittedAndDrained(p) ==
    /\ Occurrences(admitted, ToLower(arg[p])) > (IF path[p] = "admit" THEN 1 ELSE 0)
    /\ ~(ToLower(arg[p]) \in Range(snap[p].doms))

\* C32: an Add of a domain that was admitted and drained admits it again
\* (appends it and inserts the key with the full TTL) if the key's cache entry
\* had expired when the Add looked, and returns on the cache hit, writing
\* nothing, if it had not.
C32_ReadmissionAfterExpiry ==
    \A p \in Procs :
        (pc[p] = "add_unlock" /\ AdmittedAndDrained(p)) =>
            IF snap[p].cache[ToLower(arg[p])] = 0
            THEN /\ path[p] = "admit"
                 /\ Domains = Append(snap[p].doms, ToLower(arg[p]))
                 /\ setexLog[Len(setexLog)] = <<ToLower(arg[p]), CacheTTL>>
                 /\ Len(setexLog) = snap[p].setex + 1
            ELSE /\ path[p] = "hit"
                 /\ Domains = snap[p].doms
                 /\ Len(setexLog) = snap[p].setex

\* a domain that was admitted and drained is admitted a second time, its cache
\* entry having expired in between
C32_Witness ==
    \E p \in Callers :
        /\ pc[p] = "add_unlock"
        /\ path[p] = "admit"
        /\ AdmittedAndDrained(p)
        /\ snap[p].cache[ToLower(arg[p])] = 0
        /\ ToLower(arg[p]) \in Range(drained)
        /\ gets > 0

(***************************************************************************)
(* Sequential scenario: one goroutine makes up to MaxScript Add calls with *)
(* any candidates on the fresh queue, then calls Get; Count at any time.   *)
(***************************************************************************)
Main == 1

ScriptAdd(raw) ==
    /\ Len(callLog) < MaxScript
    /\ gets = 0
    /\ AddLock(Main, raw)
    /\ callLog' = Append(callLog, raw)
    /\ UNCHANGED <<obs, sent, unitVars>>

ScriptGet ==
    /\ gets < MaxGets
    /\ GetLock(Main)
    /\ UNCHANGED <<obs, scenarioVars>>

ScriptCount == CountLock(Main) /\ UNCHANGED <<obs, scenarioVars>>

ScriptCheck == AddCheck(Main) /\ UNCHANGED <<obs, scenarioVars>>

ScriptStore == AddStore(Main) /\ UNCHANGED <<obs, scenarioVars>>

ScriptInside == QueueStep(Main) /\ UNCHANGED <<obs, scenarioVars>>

NextScript ==
    \/ \E raw \in FewCandidates : ScriptAdd(raw)
    \/ ScriptGet
    \/ ScriptCount
    \/ ScriptCheck
    \/ ScriptStore
    \/ ScriptInside
    \/ ClockTick

SpecScript == Init /\ [][NextScript]_vars

\* the distinct lowercased valid inputs, ordered by first occurrence
RECURSIVE FirstDistinctValid(_, _)
FirstDistinctValid(log, acc) ==
    IF log = <<>> THEN acc
    ELSE LET d == ToLower(Head(log)) IN
         FirstDistinctValid(Tail(log),
             IF IsValidDomain(d) /\ d \notin Range(acc) THEN Append(acc, d) ELSE acc)

Expected(log) == FirstDistinctValid(log, <<>>)

\* C6: on a fresh queue, the first Get returns the distinct lowercased valid
\* arguments of the Add calls made so far in order of first occurrence; Count
\* returns their number before that Get and 0 after it.
C6_EndToEnd ==
    /\ (pc[Main] = "get_unlock" /\ gets = 0) => tmp[Main] = Expected(callLog)
    /\ pc[Main] = "count_unlock"
          => ret[Main] = IF gets = 0 THEN Len(Expected(callLog)) ELSE 0

\* the scenario of the specification: [a, A, b, a] drains as [a, b]
C6_Witness ==
    /\ callLog = << <<"a",".","c","o">>, <<"A",".","C","O">>,
                    <<"X","b",".","i","o">>, <<"a",".","c","o">> >>
    /\ pc[Main] = "get_unlock"
    /\ gets = 0
    /\ tmp[Main] = << <<"a",".","c","o">>, <<"x","b",".","i","o">> >>

(***************************************************************************)
(* Producers scenario: NumProducers goroutines each add PerProducer        *)
(* domains of their own, concurrently, to the fresh queue.                 *)
(***************************************************************************)
ProducerAdd(p) ==
    /\ sent[p] < PerProducer
    /\ AddLock(p, ProducerDomain(p, sent[p]))
    /\ sent' = [sent EXCEPT ![p] = @ + 1]
    /\ UNCHANGED <<obs, callLog, unitVars>>

ProducerStep(p) ==
    /\ \/ AddCheck(p)
       \/ AddScan(p)
       \/ AddAppend(p)
       \/ AddStore(p)
       \/ AddSetEx(p)
       \/ AddUnlock(p)
    /\ UNCHANGED <<obs, scenarioVars>>

\* every producer has returned from its last Add
ProducersFinished == \A p \in Producers : sent[p] = PerProducer /\ pc[p] \notin AddPcs

\* wg.Wait() has returned; the test reads Count()
ProducersCount ==
    /\ ProducersFinished
    /\ \/ CountLock(Main)
       \/ CountRead(Main)
       \/ CountUnlock(Main)
    /\ UNCHANGED <<obs, scenarioVars>>

NextProducers ==
    \/ \E p \in Producers : ProducerAdd(p)
    \/ \E p \in Producers : ProducerStep(p)
    \/ ProducersCount

SpecProducers == Init /\ [][NextProducers]_vars

\* C7: once every producer has returned from its last Add, the collection
\* holds each of the M*K domains exactly once and nothing else.
C7_ConcurrentAdd ==
    /\ ProducersFinished
          => /\ Len(Domains) = NumProducers * PerProducer
             /\ \A d \in ProducerDomains : Occurrences(Domains, d) = 1
    /\ pc[Main] = "count_unlock" => ret[Main] = NumProducers * PerProducer

\* all producers are done and the first two entries come from different
\* producers' interleaved calls
C7_Witness ==
    /\ pc[Main] = "count_unlock"
    /\ ret[Main] = NumProducers * PerProducer
    /\ Domains[1][2] # Domains[2][2]

(***************************************************************************)
(* General specification with an unreliable cache service.                 *)
(***************************************************************************)
CacheOutage == CacheFail /\ UNCHANGED <<obs, scenarioVars>>

CacheBack == CacheRecover /\ UNCHANGED <<obs, scenarioVars>>

FlakyAdd(p, raw) ==
    /\ Len(admitted) < MaxAdmitted
    /\ AddLock(p, raw)
    /\ UNCHANGED <<obs, scenarioVars>>

FlakyGet(p) ==
    /\ gets < MaxGets
    /\ GetLock(p)
    /\ UNCHANGED <<obs, scenarioVars>>

FlakyStep(p) ==
    /\ \/ CountLock(p)
       \/ AddCheck(p)
       \/ AddStore(p)
       \/ QueueStep(p)
    /\ UNCHANGED <<obs, scenarioVars>>

NextFlaky ==
    \/ \E p \in Callers : \E raw \in FewCandidates : FlakyAdd(p, raw)
    \/ \E p \in Callers : FlakyGet(p)
    \/ \E p \in Callers : FlakyStep(p)
    \/ ClockTick
    \/ CacheOutage
    \/ CacheBack

SpecFlaky == Init /\ [][NextFlaky]_vars

\* C8: no two entries of the collection are equal.
C8_QueueUniqueness ==
    \A i \in 1..Len(Domains) : \A j \in 1..Len(Domains) :
        i # j => Domains[i] # Domains[j]

\* while the cache is unavailable, the scan has just refused a domain that
\* is still in the collection
C8_Witness ==
    \E p \in Procs :
        /\ ~cacheUp
        /\ pc[p] = "add_unlock"
        /\ path[p] = "dup"
        /\ Len(Domains) >= 2

(***************************************************************************)
(* encoding/json on types.PassiveDNSRequest{Domains []string}              *)
(***************************************************************************)
\* the concatenation of parts[lo..hi] with sep between the parts
RECURSIVE JoinRange(_, _, _, _)
JoinRange(parts, lo, hi, sep) ==
    IF lo > hi THEN <<>>
    ELSE IF lo = hi THEN parts[lo]
    ELSE LET mid == (lo + hi) \div 2 IN
         JoinRange(parts, lo, mid, sep) \o sep \o JoinRange(parts, mid + 1, hi, sep)

\* json.Marshal's encoding of one character of a string
EscapeChar(c) ==
    IF c = "\"" THEN <<"\\", "\"">>
    ELSE IF c = "\\" THEN <<"\\", "\\">>
    ELSE IF c = "<" THEN <<"\\", "u", "0", "0", "3", "c">>
    ELSE IF c = ">" THEN <<"\\", "u", "0", "0", "3", "e">>
    ELSE IF c = "&" THEN <<"\\", "u", "0", "0", "2", "6">>
    ELSE <<c>>

\* json.Marshal of a string
QuoteString(str) ==
    <<"\"">> \o JoinRange([i \in 1..Len(str) |-> EscapeChar(str[i])], 1, Len(str), <<>>)
             \o <<"\"">>

\* {"domains":[
PayloadOpen == <<"{", "\"", "d", "o", "m", "a", "i", "n", "s", "\"", ":", "[">>

\* json.Marshal(types.PassiveDNSRequest{Domains: domains})
Marshal(domains) ==
    PayloadOpen
        \o JoinRange([i \in 1..Len(domains) |-> QuoteString(domains[i])],
                     1, Len(domains), <<",">>)
        \o <<"]", "}">>

\* the character a \u00XX escape stands for
Unescape(hex) ==
    IF hex = <<"0", "0", "3", "c">> THEN "<"
    ELSE IF hex = <<"0", "0", "3", "e">> THEN ">"
    ELSE IF hex = <<"0", "0", "2", "6">> THEN "&"
    ELSE "?"

\* the strings of the JSON array whose elements start at b[i]
RECURSIVE ParseStrings(_, _, _, _, _)
ParseStrings(b, i, cur, inStr, acc) ==
    IF i > Len(b) THEN acc
    ELSE IF inStr
    THEN IF b[i] = "\\"
         THEN IF i + 1 <= Len(b) /\ b[i + 1] = "u"
              THEN ParseStrings(b, i + 6,
                                Append(cur, Unescape(SubSeq(b, i + 2, i + 5))), TRUE, acc)
              ELSE ParseStrings(b, i + 2,
                                IF i + 1 <= Len(b) THEN Append(cur, b[i + 1]) ELSE cur,
                                TRUE, acc)
         ELSE IF b[i] = "\""
         THEN ParseStrings(b, i + 1, <<>>, FALSE, Append(acc, cur))
         ELSE ParseStrings(b, i + 1, Append(cur, b[i]), TRUE, acc)
    ELSE IF b[i] = "\"" THEN ParseStrings(b, i + 1, <<>>, TRUE, acc)
    ELSE IF b[i] = "]" THEN acc
    ELSE ParseStrings(b, i + 1, cur, FALSE, acc)

\* the server's json.Unmarshal(body, &req); req.Domains
Unmarshal(body) ==
    IF Len(body) >= Len(PayloadOpen) /\ SubSeq(body, 1, Len(PayloadOpen)) = PayloadOpen
    THEN ParseStrings(body, Len(PayloadOpen) + 1, <<>>, FALSE, <<>>)
    ELSE <<>>

(***************************************************************************)
(* DomainsProjectClient.SubmitDomains                                      *)
(***************************************************************************)
\* the status codes of the client's tests
StatusCodes == {200, 201, 202, 204, 400, 401, 403, 404, 429, 500, 502, 503}

\* what client.Do may come back with
Outcomes == StatusCodes \cup {NoResponse}

\* the outcomes the scenarios with many calls draw from
FewOutcomes == {200, 503, NoResponse}

\* variant: the empty list is not special-cased
SubmitDomainsCallNoGuard(domains) ==
    /\ cpc = "idle"
    /\ cArg' = domains
    /\ postsAtCall' = posts
    /\ reply' = NoResponse
    /\ cpc' = "post"
    /\ cErr' = cErr
    /\ UNCHANGED <<apiURL, lastReq, posts>>

\* if len(domains) == 0 { return nil }
SubmitDomainsCall(domains) ==
    /\ cpc = "idle"
    /\ cArg' = domains
    /\ postsAtCall' = posts
    /\ reply' = NoResponse
    /\ IF Len(domains) = 0
       THEN cpc' = "return" /\ cErr' = Nil
       ELSE cpc' = "post" /\ cErr' = cErr
    /\ UNCHANGED <<apiURL, lastReq, posts>>

\* json.Marshal(payload); http.NewRequestWithContext(ctx, "POST", DefaultAPIURL,
\* body); request.Header.Set("Content-Type", "application/json"); client.Do
\* puts the request on the wire
SubmitDomainsPost ==
    /\ cpc = "post"
    /\ lastReq' = [method |-> "POST", url |-> DefaultAPIURL,
                   contentType |-> "application/json", body |-> Marshal(cArg)]
    /\ posts' = posts + 1
    /\ cpc' = "await"
    /\ UNCHANGED <<apiURL, cArg, cErr, reply, postsAtCall>>

\* variant: every 2xx status counts as success
SubmitDomainsReply2xx(outcome) ==
    /\ cpc = "await"
    /\ reply' = outcome
    /\ cErr' = IF outcome = NoResponse THEN TransportErr
               ELSE IF outcome < 200 \/ outcome > 299 THEN StatusErr(outcome)
               ELSE Nil
    /\ cpc' = "return"
    /\ UNCHANGED <<apiURL, cArg, lastReq, posts, postsAtCall>>

\* resp, err := client.Do(request); if err != nil { return err }
\* if resp.StatusCode != http.StatusOK { return fmt.Errorf(...) }; return nil
SubmitDomainsReply(outcome) ==
    /\ cpc = "await"
    /\ reply' = outcome
    /\ cErr' = IF outcome = NoResponse THEN TransportErr
               ELSE IF outcome # StatusOK THEN StatusErr(outcome)
               ELSE Nil
    /\ cpc' = "return"
    /\ UNCHANGED <<apiURL, cArg, lastReq, posts, postsAtCall>>

\* SubmitDomains returns cErr to its caller
SubmitDomainsReturn ==
    /\ cpc = "return"
    /\ cpc' = "idle"
    /\ cArg' = <<>>
    /\ cErr' = Nil
    /\ reply' = NoResponse
    /\ UNCHANGED <<apiURL, lastReq, posts, postsAtCall>>

(***************************************************************************)
(* Client scenario: a client built by NewDomainsProjectClient with any     *)
(* configured URL is called with any short list until it has sent MaxPosts *)
(* requests.                                                               *)
(***************************************************************************)
\* a plain name and one with a character json.Marshal escapes (the validator
\* accepts both)
ListDomains == {<<"a", ".", "c", "o">>, <<"\"", "b", ".", "i", "o">>}

ClientLists == UNION {[1..n -> ListDomains] : n \in 0..MaxList}

InitClient ==
    /\ Fresh
    /\ Domains = <<>>
    /\ admitted = <<>>
    /\ apiURL \in {NewDomainsProjectClient(u) : u \in ConfiguredURLs}
    /\ Unused

ClientCall(list) ==
    /\ posts < MaxPosts
    /\ SubmitDomainsCall(list)
    /\ UNCHANGED <<queueVars, historyVars, obs, callLog, sent, submitterVars, subfinderVars, lifecycleVars>>

ClientPost ==
    /\ SubmitDomainsPost
    /\ UNCHANGED <<queueVars, historyVars, obs, callLog, sent, submitterVars, subfinderVars, lifecycleVars>>

ClientReply(outcome) ==
    /\ SubmitDomainsReply(outcome)
    /\ UNCHANGED <<queueVars, historyVars, obs, callLog, sent, submitterVars, subfinderVars, lifecycleVars>>

ClientReturn ==
    /\ SubmitDomainsReturn
    /\ UNCHANGED <<queueVars, historyVars, obs, callLog, sent, submitterVars, subfinderVars, lifecycleVars>>

NextClient ==
    \/ \E list \in ClientLists : ClientCall(list)
    \/ ClientPost
    \/ \E outcome \in Outcomes : ClientReply(outcome)
    \/ ClientReturn

SpecClient == InitClient /\ [][NextClient]_vars

\* the request of the SubmitDomains call in progress is on the wire
Posted == cpc \in {"await", "return"} /\ cArg # <<>>

\* C18: once SubmitDomains with a non-empty list has sent its request, exactly
\* one request has been sent for the call, and it is a POST with Content-Type
\* application/json to the client's configured APIURL whose body decodes to
\* the list that was passed in.
C18_ConfiguredEndpoint ==
    Posted => /\ posts = postsAtCall + 1
              /\ lastReq.method = "POST"
              /\ lastReq.contentType = "application/json"
              /\ Unmarshal(lastReq.body) = cArg
              /\ lastReq.url = apiURL

\* C19: when SubmitDomains with a non-empty list is about to return, it
\* returns nil exactly if the request completed with status 200; a transport
\* error gives a non-nil error and any other status an error whose message
\* ends with that status code in decimal.
C19_DeliveryOutcome ==
    (cpc = "return" /\ cArg # <<>>)
        => /\ (cErr = Nil) <=> (reply = StatusOK)
           /\ reply = NoResponse => cErr = TransportErr
           /\ reply \notin {StatusOK, NoResponse}
                 => /\ cErr.kind = "status"
                    /\ HasSuffix(cErr.msg, Decimal(reply))

\* a call is about to return the error of a 204 answer
C19_Witness ==
    /\ cpc = "return"
    /\ cArg # <<>>
    /\ reply = 204
    /\ cErr.kind = "status"

\* C20: a SubmitDomains call with an empty list returns nil and puts no
\* request on the wire.
C20_EmptySubmission ==
    (cpc = "return" /\ cArg = <<>>) => (cErr = Nil /\ posts = postsAtCall)

\* an empty list is passed to a client that has sent a request before
C20_Witness ==
    /\ cpc = "return"
    /\ cArg = <<>>
    /\ posts = 1
    /\ lastReq.url = DefaultAPIURL
    /\ lastReq.method = "POST"

(***************************************************************************)
(* Submitter.QueueSubmitter                                                *)
(***************************************************************************)
\* variant: the chunk's upper end is one too far
BatchOneMore(domains, i) ==
    LET end == IF i + maxBatchSize + 1 > Len(domains) THEN Len(domains)
               ELSE i + maxBatchSize + 1
    IN  SubSeq(domains, i + 1, end)

\* variant: the chunk is cut from the front of the slice
BatchFromFront(domains, i) ==
    LET end == IF i + maxBatchSize > Len(domains) THEN Len(domains)
               ELSE i + maxBatchSize
    IN  SubSeq(domains, 1, end - i)

\* end := i + maxBatchSize; if end > len(domains) { end = len(domains) }
\* batch := domains[i:end]
Batch(domains, i) ==
    LET end == IF i + maxBatchSize > Len(domains) THEN Len(domains)
               ELSE i + maxBatchSize
    IN  SubSeq(domains, i + 1, end)

\* for range tick.C { domains := q.Get(): the ticker fires and Get takes the lock
SubmitterTick ==
    /\ spc = "wait"
    /\ GetLock(SubmitterProc)
    /\ spc' = "get"
    /\ ticks' = ticks + 1
    /\ tickStart' = Len(calls)
    /\ getters' = getters \cup {SubmitterProc}
    /\ UNCHANGED <<sDomains, sI, calls, errs>>

\* the steps of Get between its lock and its return
SubmitterGet ==
    /\ spc = "get"
    /\ \/ GetCopy(SubmitterProc)
       \/ GetClear(SubmitterProc)
    /\ UNCHANGED submitterVars

\* variant: an empty drain is handed to the client like any other
SubmitterGotNoSkip ==
    /\ spc = "get"
    /\ GetUnlock(SubmitterProc)
    /\ sDomains' = tmp[SubmitterProc]
    /\ sI' = 0
    /\ spc' = "call"
    /\ UNCHANGED <<ticks, calls, errs, tickStart, getters>>

\* variant: the lock taken for the drain is kept while the chunks go out
SubmitterGotLocked ==
    /\ spc = "get"
    /\ pc[SubmitterProc] = "get_unlock"
    /\ drained' = drained \o tmp[SubmitterProc]
    /\ gets' = gets + 1
    /\ tmp' = [tmp EXCEPT ![SubmitterProc] = <<>>]
    /\ span' = [span EXCEPT ![SubmitterProc] = <<0, 0>>]
    /\ pc' = [pc EXCEPT ![SubmitterProc] = "idle"]
    /\ UNCHANGED <<Domains, Lock, cache, cacheUp, arg, domain, ret>>
    /\ UNCHANGED <<snap, path, admitted, lastCut, epochAdm, setexLog>>
    /\ sDomains' = tmp[SubmitterProc]
    /\ sI' = 0
    /\ spc' = IF Len(tmp[SubmitterProc]) = 0 THEN "wait" ELSE "loop"
    /\ UNCHANGED <<ticks, calls, errs, tickStart, getters>>

\* Get returns; if len(domains) == 0 { continue }; i := 0
SubmitterGot ==
    /\ spc = "get"
    /\ GetUnlock(SubmitterProc)
    /\ sDomains' = tmp[SubmitterProc]
    /\ sI' = 0
    /\ spc' = IF Len(tmp[SubmitterProc]) = 0 THEN "wait" ELSE "loop"
    /\ UNCHANGED <<ticks, calls, errs, tickStart, getters>>

\* i < len(domains): the loop goes on to the next chunk, or the tick is over
SubmitterLoop ==
    /\ spc = "loop"
    /\ spc' = IF sI < Len(sDomains) THEN "call" ELSE "wait"
    /\ UNCHANGED <<sDomains, sI, ticks, calls, errs, tickStart, getters>>

\* variant: the chunk is handed to a goroutine of its own and the loop goes
\* on: go s.client.SubmitDomains(batch)
SubmitterCallAsync ==
    /\ spc = "call"
    /\ SubmitDomainsCall(Batch(sDomains, sI))
    /\ calls' = Append(calls, Batch(sDomains, sI))
    /\ sI' = sI + maxBatchSize
    /\ spc' = "loop"
    /\ UNCHANGED <<sDomains, ticks, errs, tickStart, getters>>

\* batch := domains[i:end]; err := s.client.SubmitDomains(batch)
SubmitterCall ==
    /\ spc = "call"
    /\ SubmitDomainsCall(Batch(sDomains, sI))
    /\ calls' = Append(calls, Batch(sDomains, sI))
    /\ spc' = "submit"
    /\ UNCHANGED <<sDomains, sI, ticks, errs, tickStart, getters>>

\* variant: a failed chunk ends the tick
SubmitterAfterBreak ==
    /\ spc = "submit"
    /\ SubmitDomainsReturn
    /\ errs' = Append(errs, cErr)
    /\ sI' = sI + maxBatchSize
    /\ spc' = IF cErr = Nil THEN "loop" ELSE "wait"
    /\ UNCHANGED <<sDomains, ticks, calls, tickStart, getters>>

\* variant: a failed chunk is submitted again
SubmitterAfterRetry ==
    /\ spc = "submit"
    /\ SubmitDomainsReturn
    /\ errs' = Append(errs, cErr)
    /\ sI' = IF cErr = Nil \/ Len(calls) - tickStart > Len(sDomains) \div maxBatchSize + 1
             THEN sI + maxBatchSize ELSE sI
    /\ spc' = "loop"
    /\ UNCHANGED <<sDomains, ticks, calls, tickStart, getters>>

\* SubmitDomains returns; the outcome is logged; i += maxBatchSize
SubmitterAfter ==
    /\ spc = "submit"
    /\ SubmitDomainsReturn
    /\ errs' = Append(errs, cErr)
    /\ sI' = sI + maxBatchSize
    /\ spc' = "loop"
    /\ UNCHANGED <<sDomains, ticks, calls, tickStart, getters>>

(***************************************************************************)
(* Submitter scenario: the queue holds up to MaxChunks chunks' worth of    *)
(* names when the submitter starts; a source adds one more while the       *)
(* submitter's ticker fires up to MaxTicks times.                          *)
(***************************************************************************)
\* fmt.Sprintf("example%d.com", i), shortened to "e<i>.co"
BulkDomain(i) == <<"e">> \o Decimal(i) \o <<".", "c", "o">>

\* the queue after: for i := 0; i < n; i++ { queue.Add(BulkDomain(i)) }
Bulk(n) == [i \in 1..n |-> BulkDomain(i - 1)]

\* the sizes at the chunk boundaries
BulkSizes ==
    {0, 1, maxBatchSize - 1, maxBatchSize, maxBatchSize + 1, MaxChunks * maxBatchSize}

RefillNames == {<<"X", "b", ".", "i", "o">>}

InitSubmit ==
    /\ Fresh
    /\ \E n \in BulkSizes : Domains = Bulk(n) /\ admitted = Bulk(n)
    /\ apiURL = NewDomainsProjectClient("")
    /\ Unused

\* a source calls Add while the submitter runs
RefillAdd(raw) ==
    /\ callLog = <<>>
    /\ AddLock(Main, raw)
    /\ callLog' = Append(callLog, raw)
    /\ UNCHANGED <<obs, sent, unitVars>>

RefillStep ==
    /\ \/ AddCheck(Main)
       \/ AddScan(Main)
       \/ AddAppend(Main)
       \/ AddStore(Main)
       \/ AddSetEx(Main)
       \/ AddUnlock(Main)
    /\ UNCHANGED <<obs, scenarioVars>>

TickFires ==
    /\ ticks < MaxTicks
    /\ SubmitterTick
    /\ UNCHANGED <<obs, callLog, sent, clientVars, subfinderVars, lifecycleVars>>

DrainStep == SubmitterGet /\ UNCHANGED <<obs, callLog, sent, clientVars, subfinderVars, lifecycleVars>>

DrainReturns == SubmitterGot /\ UNCHANGED <<obs, callLog, sent, clientVars, subfinderVars, lifecycleVars>>

NextChunk == SubmitterLoop /\ UNCHANGED <<queueVars, historyVars, obs, callLog, sent, clientVars, subfinderVars, lifecycleVars>>

ChunkCall == SubmitterCall /\ UNCHANGED <<queueVars, historyVars, obs, callLog, sent, subfinderVars, lifecycleVars>>

ChunkPost ==
    /\ SubmitDomainsPost
    /\ UNCHANGED <<queueVars, historyVars, obs, callLog, sent, submitterVars, subfinderVars, lifecycleVars>>

ChunkReply(outcome) ==
    /\ SubmitDomainsReply(outcome)
    /\ UNCHANGED <<queueVars, historyVars, obs, callLog, sent, submitterVars, subfinderVars, lifecycleVars>>

ChunkReturn == SubmitterAfter /\ UNCHANGED <<queueVars, historyVars, obs, callLog, sent, subfinderVars, lifecycleVars>>

NextSubmit ==
    \/ \E raw \in RefillNames : RefillAdd(raw)
    \/ RefillStep
    \/ TickFires
    \/ DrainStep
    \/ DrainReturns
    \/ NextChunk
    \/ ChunkCall
    \/ ChunkPost
    \/ \E outcome \in FewOutcomes : ChunkReply(outcome)
    \/ ChunkReturn

SpecSubmit == InitSubmit /\ [][NextSubmit]_vars

\* the concatenation of a sequence of sequences
Flatten(seqs) == JoinRange(seqs, 1, Len(seqs), <<>>)

\* the chunks handed to SubmitDomains since the latest tick
TickCalls == SubSeq(calls, tickStart + 1, Len(calls))

\* the latest tick is over: the submitter waits for the ticker again
TickOver == spc = "wait" /\ ticks > 0

CeilDiv(n, b) == (n + b - 1) \div b

\* C11: every SubmitDomains call receives between 1 and maxBatchSize domains,
\* every chunk of a tick but its last has exactly maxBatchSize, and a tick
\* whose drain returned N domains ends after exactly ceil(N / maxBatchSize)
\* calls.
C11_BatchChunking ==
    /\ \A k \in 1..Len(calls) : Len(calls[k]) >= 1 /\ Len(calls[k]) <= maxBatchSize
    /\ \A k \in (tickStart + 1)..(Len(calls) - 1) : Len(calls[k]) = maxBatchSize
    /\ TickOver => Len(calls) - tickStart = CeilDiv(Len(sDomains), maxBatchSize)

\* a drain of maxBatchSize + 1 domains went out as chunks of maxBatchSize and 1
C11_Witness ==
    /\ TickOver
    /\ Len(sDomains) = maxBatchSize + 1
    /\ Len(TickCalls) = 2
    /\ Len(TickCalls[1]) = maxBatchSize
    /\ Len(TickCalls[2]) = 1

\* C12: the chunks handed to the client during a tick are, in order,
\* consecutive slices of the drained sequence: their concatenation is a prefix
\* of it while the tick runs and the whole of it when the tick is over, and
\* over all ticks the chunks concatenate to what Get has returned.
C12_ChunksPartitionDrain ==
    /\ spc # "get"
          => Flatten(TickCalls) = SubSeq(sDomains, 1, Len(Flatten(TickCalls)))
    /\ TickOver => Flatten(TickCalls) = sDomains
    /\ TickOver => Flatten(calls) = drained

\* two full chunks have gone out and differ in their first element
C12_Witness ==
    /\ TickOver
    /\ Len(TickCalls) = 2
    /\ Len(TickCalls[2]) = maxBatchSize
    /\ TickCalls[1][1] # TickCalls[2][1]

\* C13: after a chunk of the tick in progress has failed, every later chunk
\* of the tick has been submitted or is about to be, and a finished tick has
\* made all its ceil(N / maxBatchSize) calls whatever their outcomes.
C13_ChunkFailureIsolation ==
    /\ \A k \in (tickStart + 1)..Len(errs) :
          (errs[k] # Nil /\ (k - tickStart) * maxBatchSize < Len(sDomains))
              => (Len(calls) > k \/ spc \in {"loop", "call"})
    /\ TickOver => /\ Len(errs) = Len(calls)
                   /\ Len(calls) - tickStart = CeilDiv(Len(sDomains), maxBatchSize)

\* the first chunk of a two-chunk tick failed, the second was submitted, and
\* a later tick has submitted a chunk too
C13_Witness ==
    /\ tickStart = 2
    /\ Len(calls) = 3
    /\ Len(errs) = 3
    /\ errs[1] # Nil
    /\ Len(calls[1]) = maxBatchSize
    /\ TickOver

\* the step on which SubmitDomains returns to the submitter
ChunkReturned == Len(errs') = Len(errs) + 1

\* C14: the k-th SubmitDomains call of a tick receives the k-th slice of the
\* drained sequence whether earlier calls succeeded or failed, so no chunk is
\* passed twice, and the step on which a call returns, with an error or
\* without, leaves the collection as it is.
C14_NoRetryNoRequeue ==
    /\ [](spc # "get" =>
            \A k \in 1..Len(TickCalls) :
                TickCalls[k] = SubSeq(sDomains, (k - 1) * maxBatchSize + 1,
                                      Min(k * maxBatchSize, Len(sDomains))))
    /\ [][ChunkReturned => Domains' = Domains]_vars

\* both chunks of a tick failed and the collection is empty afterwards
C14_Witness ==
    /\ TickOver
    /\ Len(TickCalls) = 2
    /\ Len(errs) = 2
    /\ errs[1] # Nil
    /\ errs[2] # Nil
    /\ Domains = <<>>

\* C15: a tick whose Get returned no domain makes no SubmitDomains call, and
\* while nothing has been admitted the client has not been called.
C15_EmptyTickNoCall ==
    /\ (spc # "get" /\ ticks > 0 /\ sDomains = <<>>)
          => (spc = "wait" /\ cpc = "idle" /\ Len(calls) = tickStart)
    /\ admitted = <<>> => (calls = <<>> /\ posts = 0)

\* an empty tick has followed a tick that submitted a chunk
C15_Witness ==
    /\ TickOver
    /\ ticks = 2
    /\ sDomains = <<>>
    /\ Len(calls) = 1
    /\ tickStart = 1

\* the submitter is between the return of Get and the end of the tick's loop
Delivering == spc \in {"loop", "call", "submit"}

\* C30: while the submitter works on the chunks of a tick, and in particular
\* while a SubmitDomains call is in progress, it does not hold the queue's
\* mutex: a producer's Add can take the mutex when it is free and take every
\* step up to its return, whatever the delivery does; what is admitted after
\* the tick's Get stays in the collection, outside the chunks of this tick,
\* and is part of what a later Get returns.
C30_NonBlockingProducers ==
    /\ (Delivering \/ cpc # "idle") => Lock # SubmitterProc
    /\ (Delivering /\ Lock = NoOne /\ callLog = <<>>)
          => \A raw \in RefillNames : ENABLED RefillAdd(raw)
    /\ (Delivering /\ pc[Main] # "idle") => ENABLED RefillStep
    /\ (Delivering /\ pc[Main] = "idle")
          => /\ Domains = SubSeq(admitted, lastCut + 1, Len(admitted))
             /\ Flatten(TickCalls) = SubSeq(sDomains, 1, Len(Flatten(TickCalls)))
             /\ sDomains = SubSeq(drained, Len(drained) - Len(sDomains) + 1, Len(drained))
    /\ (TickOver /\ pc[Main] = "idle")
          => Flatten(calls) \o Domains = admitted

\* a producer's Add admits a name while the reply of a delivery is awaited
C30_Witness ==
    /\ cpc = "await"
    /\ spc = "submit"
    /\ pc[Main] = "add_unlock"
    /\ path[Main] = "admit"
    /\ Len(cArg) = maxBatchSize

\* the SubmitDomains calls that have begun and not returned
CallsInFlight == Len(calls) - Len(errs)

\* C34: at most one SubmitDomains call of the submitter is in progress, and
\* only while the submitter waits for its return; when the submitter takes a
\* Get, and while it waits for its ticker, every call has returned and every
\* domain of the earlier drains has been handed to the client.
C34_SynchronousSubmission ==
    /\ CallsInFlight \in {0, 1}
    /\ CallsInFlight = 1 <=> spc = "submit"
    /\ cpc # "idle" => spc = "submit"
    /\ spc \in {"wait", "get"} => Flatten(calls) = drained
    /\ Delivering => Flatten(calls) =
                        SubSeq(drained, 1, Len(drained) - Len(sDomains)) \o Flatten(TickCalls)

\* the submitter takes the Get of its second tick after the two chunks of the
\* first, of which one failed, have returned
C34_Witness ==
    /\ spc = "get"
    /\ ticks = 2
    /\ Len(calls) = 2
    /\ Len(errs) = 2
    /\ errs[1] # Nil
    /\ errs[2] = Nil
    /\ pc[SubmitterProc] = "get_copy"

(***************************************************************************)
(* Subfinder: Source.processDomains                                        *)
(***************************************************************************)
\* variant: no parent counts as recently processed
IsRecentlyProcessedNever(parent) == FALSE

\* isRecentlyProcessed: the parent has a mark and time.Since(processedTime) <
\* s.cacheTTL
IsRecentlyProcessed(parent) ==
    processedCache[parent] # Unmarked /\ processedCache[parent] < SubfinderTTL

sfOwn == <<sfpc, sfDomains, sfFound, sweeps, sfCtx, enumLive, cleanupLive, sfStopped>>

\* time passes: every mark is one unit older (ages beyond cacheTTL + 1 are not
\* told apart)
ProcessedAge ==
    /\ \E parent \in Parents : sinceMark[parent] \in 0..SubfinderTTL
    /\ processedCache' = [parent \in Parents |->
            IF processedCache[parent] \in 0..SubfinderTTL
            THEN processedCache[parent] + 1 ELSE processedCache[parent]]
    /\ sinceMark' = [parent \in Parents |->
            IF sinceMark[parent] \in 0..SubfinderTTL
            THEN sinceMark[parent] + 1 ELSE sinceMark[parent]]
    /\ UNCHANGED <<sfOwn, getters>>

\* cleanupCache, case <-ticker.C: the marks with now.Sub(processedTime) >
\* s.cacheTTL are deleted
CleanupCache ==
    /\ cleanupLive
    /\ processedCache' = [parent \in Parents |->
            IF processedCache[parent] > SubfinderTTL THEN Unmarked
            ELSE processedCache[parent]]
    /\ UNCHANGED <<sfOwn, sinceMark, getters>>

\* cleanupCache, case <-ctx.Done(): return; defer s.wg.Done()
CleanupExit ==
    /\ cleanupLive
    /\ sfCtx = "done"
    /\ cleanupLive' = FALSE
    /\ UNCHANGED <<sfpc, sfDomains, sfFound, processedCache, sweeps, sfCtx, enumLive,
                   sfStopped, sinceMark, getters>>

\* Stop: s.cancelFunc()
SubfinderCancel ==
    /\ sfCtx' = "done"
    /\ UNCHANGED <<sfpc, sfDomains, sfFound, processedCache, sweeps, enumLive, cleanupLive,
                   sfStopped, sinceMark, getters>>

\* Stop's select: <-done once s.wg.Wait() has returned, that is once
\* processDomains and cleanupCache have both called s.wg.Done() ("stopped
\* successfully"), or <-ctx.Done() ("stop timeout")
SubfinderWaited(timeout) ==
    /\ ~timeout => (sfpc = "exited" /\ ~cleanupLive)
    /\ sfStopped' = IF timeout THEN "timeout" ELSE "ok"
    /\ UNCHANGED <<sfpc, sfDomains, sfFound, processedCache, sweeps, sfCtx, enumLive,
                   cleanupLive, sinceMark, getters>>

\* case <-ticker.C: domains := s.queue.Get(): the ticker has fired and the
\* select takes that case (it may, also when ctx.Done() is ready too); Get
\* takes the lock
SubfinderTick ==
    /\ sfpc = "wait"
    /\ GetLock(SubfinderProc)
    /\ sfpc' = "get"
    /\ sweeps' = sweeps + 1
    /\ getters' = getters \cup {SubfinderProc}
    /\ UNCHANGED <<sfDomains, sfFound, processedCache, sfCtx, enumLive, cleanupLive,
                   sfStopped, sinceMark>>

\* processDomains, case <-ctx.Done(): return; defer s.wg.Done()
SubfinderExit ==
    /\ sfpc = "wait"
    /\ sfCtx = "done"
    /\ sfpc' = "exited"
    /\ UNCHANGED <<sfDomains, sfFound, processedCache, sweeps, sfCtx, enumLive,
                   cleanupLive, sfStopped, sinceMark, getters>>

\* the steps of Get between its lock and its return
SubfinderGet ==
    /\ sfpc = "get"
    /\ \/ GetCopy(SubfinderProc)
       \/ GetClear(SubfinderProc)
    /\ UNCHANGED <<subfinderVars, getters>>

\* Get returns
SubfinderGot ==
    /\ sfpc = "get"
    /\ GetUnlock(SubfinderProc)
    /\ sfDomains' = tmp[SubfinderProc]
    /\ sfpc' = "loop"
    /\ UNCHANGED <<sfFound, processedCache, sweeps, sfCtx, enumLive, cleanupLive,
                   sfStopped, sinceMark, getters>>

\* for _, domain := range domains: parentDomain == "" and a recently processed
\* parent skip the domain; otherwise discoverSubdomains starts: it makes the
\* runner, starts the goroutine of RunEnumeration and waits in its select, or
\* returns at once when the runner cannot be made
SubfinderLoop ==
    /\ sfpc = "loop"
    /\ IF sfDomains = <<>>
       THEN /\ sfpc' = "wait"
            /\ UNCHANGED <<sfDomains, sfFound, enumLive>>
       ELSE IF GetParentDomain(Head(sfDomains)) = <<>>
               \/ IsRecentlyProcessed(GetParentDomain(Head(sfDomains)))
       THEN /\ sfDomains' = Tail(sfDomains)
            /\ UNCHANGED <<sfpc, sfFound, enumLive>>
       ELSE /\ sfpc' = "discover"
            /\ sfFound' = 0
            /\ \/ enumLive' = enumLive + 1
               \/ UNCHANGED enumLive    \* runner.NewRunner failed: return
            /\ UNCHANGED sfDomains
    /\ UNCHANGED <<processedCache, sweeps, sfCtx, cleanupLive, sfStopped, sinceMark, getters>>

\* ResultCallback, called by a running enumeration: s.queue.Add(result.Host)
\* takes the lock
SubfinderFound(host) ==
    /\ enumLive > 0
    /\ sfFound < MaxFound
    /\ AddLock(EnumProc, host)
    /\ sfFound' = sfFound + 1
    /\ UNCHANGED <<sfpc, sfDomains, processedCache, sweeps, sfCtx, enumLive, cleanupLive,
                   sfStopped, sinceMark, getters>>

\* the steps of the Add of a reported host, up to its return
SubfinderFoundStep ==
    /\ \/ AddCheck(EnumProc)
       \/ AddScan(EnumProc)
       \/ AddAppend(EnumProc)
       \/ AddStore(EnumProc)
       \/ AddSetEx(EnumProc)
       \/ AddUnlock(EnumProc)
    /\ UNCHANGED <<subfinderVars, getters>>

\* RunEnumeration returns: close(done), the goroutine ends
EnumerationDone ==
    /\ enumLive > 0
    /\ pc[EnumProc] = "idle"
    /\ enumLive' = enumLive - 1
    /\ UNCHANGED <<sfpc, sfDomains, sfFound, processedCache, sweeps, sfCtx, cleanupLive,
                   sfStopped, sinceMark, getters>>

\* discoverSubdomains returns from its select, on <-done or on <-ctx.Done();
\* s.markProcessed(parentDomain)
SubfinderMark ==
    /\ sfpc = "discover"
    /\ enumLive = 0 \/ sfCtx = "done"
    /\ processedCache' = [processedCache EXCEPT ![GetParentDomain(Head(sfDomains))] = 0]
    /\ sinceMark' = [sinceMark EXCEPT ![GetParentDomain(Head(sfDomains))] = 0]
    /\ sfpc' = "readd"
    /\ UNCHANGED <<sfDomains, sfFound, sweeps, sfCtx, enumLive, cleanupLive, sfStopped, getters>>

\* s.queue.Add(domain) takes the lock
SubfinderReAdd ==
    /\ sfpc = "readd"
    /\ AddLock(SubfinderProc, Head(sfDomains))
    /\ sfpc' = "readding"
    /\ UNCHANGED <<sfDomains, sfFound, processedCache, sweeps, sfCtx, enumLive, cleanupLive,
                   sfStopped, sinceMark, getters>>

\* the steps of that Add, up to its return; the loop moves to the next domain
SubfinderReAddStep ==
    /\ sfpc = "readding"
    /\ \/ /\ \/ AddCheck(SubfinderProc)
             \/ AddScan(SubfinderProc)
             \/ AddAppend(SubfinderProc)
             \/ AddStore(SubfinderProc)
             \/ AddSetEx(SubfinderProc)
          /\ UNCHANGED <<sfpc, sfDomains>>
       \/ /\ AddUnlock(SubfinderProc)
          /\ sfpc' = "loop"
          /\ sfDomains' = Tail(sfDomains)
    /\ UNCHANGED <<sfFound, processedCache, sweeps, sfCtx, enumLive, cleanupLive,
                   sfStopped, sinceMark, getters>>

(***************************************************************************)
(* The whole system: a source, the Batch Submitter with its Delivery       *)
(* Client and Subfinder's processDomains share one queue.                  *)
(***************************************************************************)
SourceNames == {<<"a", ".", "c", "o">>}

submitterOwn == <<spc, sDomains, sI, ticks, calls, errs, tickStart>>

SourceAdd(raw) ==
    /\ Len(admitted) < MaxAdmitted
    /\ AddLock(Main, raw)
    /\ UNCHANGED <<obs, scenarioVars>>

SourceStep ==
    /\ \/ AddCheck(Main)
       \/ AddScan(Main)
       \/ AddAppend(Main)
       \/ AddStore(Main)
       \/ AddSetEx(Main)
       \/ AddUnlock(Main)
    /\ UNCHANGED <<obs, scenarioVars>>

SubmitterStep ==
    \/ /\ ticks < MaxTicks
       /\ SubmitterTick
       /\ UNCHANGED <<obs, callLog, sent, clientVars, subfinderVars, lifecycleVars>>
    \/ /\ \/ SubmitterGet
          \/ SubmitterGot
       /\ UNCHANGED <<obs, callLog, sent, clientVars, subfinderVars, lifecycleVars>>
    \/ /\ SubmitterLoop
       /\ UNCHANGED <<queueVars, historyVars, obs, callLog, sent, clientVars, subfinderVars, lifecycleVars>>
    \/ /\ \/ SubmitterCall
          \/ SubmitterAfter
       /\ UNCHANGED <<queueVars, historyVars, obs, callLog, sent, subfinderVars, lifecycleVars>>

DeliveryStep ==
    /\ \/ SubmitDomainsPost
       \/ \E outcome \in FewOutcomes : SubmitDomainsReply(outcome)
    /\ UNCHANGED <<queueVars, historyVars, obs, callLog, sent, submitterVars, subfinderVars, lifecycleVars>>

SubfinderStep ==
    \/ /\ sweeps < MaxSweeps
       /\ SubfinderTick
       /\ UNCHANGED <<obs, callLog, sent, clientVars, submitterOwn, lifecycleVars>>
    \/ /\ \/ SubfinderGet
          \/ SubfinderGot
          \/ \E host \in DiscoverHosts : SubfinderFound(host)
          \/ SubfinderFoundStep
          \/ SubfinderReAdd
          \/ SubfinderReAddStep
       /\ UNCHANGED <<obs, callLog, sent, clientVars, submitterOwn, lifecycleVars>>
    \/ /\ \/ SubfinderLoop
          \/ EnumerationDone
          \/ SubfinderMark
          \/ ProcessedAge
          \/ CleanupCache
       /\ UNCHANGED <<queueVars, historyVars, obs, callLog, sent, clientVars, submitterOwn, lifecycleVars>>

NextSystem ==
    \/ \E raw \in SourceNames : SourceAdd(raw)
    \/ SourceStep
    \/ SubmitterStep
    \/ DeliveryStep
    \/ SubfinderStep
    \/ ClockTick

SpecSystem == Init /\ [][NextSystem]_vars

\* no unit is inside a call or a loop
SystemIdle == Quiescent /\ spc = "wait" /\ sfpc = "wait" /\ cpc = "idle"

\* C16: whenever the whole system is idle, every domain admitted so far either
\* still waits in the queue or has been handed to the Delivery Client, exactly
\* once and in admission order: the chunks of all ticks followed by the
\* collection are exactly the admissions.
C16_CrossTickDelivery ==
    SystemIdle => Flatten(calls) \o Domains = admitted

\* C17: only the Batch Submitter's goroutine ever calls Get on the queue.
C17_SingleConsumer ==
    getters \subseteq {SubmitterProc}

\* C36: when the queue.Add(domain) that ends an iteration of processDomains'
\* loop is about to return, the domain that was drained and processed is in
\* the collection again.
C36_SubfinderKeepsDomainsAvailable ==
    (sfpc = "readding" /\ pc[SubfinderProc] = "add_unlock")
        => InDomains(ToLower(Head(sfDomains)))

(***************************************************************************)
(* Re-observation scenario: a source keeps adding the same names while the *)
(* cache's clock advances and the Batch Submitter delivers, with any       *)
(* outcome of every delivery.                                              *)
(***************************************************************************)
\* the names the source observes again and again
ObservedNames == {<<"a", ".", "c", "o">>, <<"A", ".", "C", "O">>}

NextRedeliver ==
    \/ \E raw \in ObservedNames : SourceAdd(raw)
    \/ SourceStep
    \/ SubmitterStep
    \/ DeliveryStep
    \/ ClockTick

SpecRedeliver == Init /\ [][NextRedeliver]_vars

\* the position in admitted of the latest admission of d, 0 if there is none
LastAdmission(d) ==
    IF \E i \in 1..Len(admitted) : admitted[i] = d
    THEN CHOOSE i \in 1..Len(admitted) :
            admitted[i] = d /\ \A j \in (i + 1)..Len(admitted) : admitted[j] # d
    ELSE 0

\* the SubmitDomains call that was handed the n-th domain handed over
RECURSIVE CallOf(_, _)
CallOf(n, j) == IF n <= Len(calls[j]) THEN j ELSE CallOf(n - Len(calls[j]), j + 1)

\* the chunk with the latest admission of d has come back from SubmitDomains
\* with an error, and the cache entry made by that admission has not expired
Suppressed(d) ==
    /\ epochAdm[d] >= 1
    /\ LastAdmission(d) \in 1..Len(Flatten(calls))
    /\ CallOf(LastAdmission(d), 1) <= Len(errs)
    /\ errs[CallOf(LastAdmission(d), 1)] # Nil

\* C35: the domains handed to the client are the admissions, in order, each
\* once; and as long as the cache entry of a domain whose chunk failed has not
\* expired, the key is in the cache, the domain is not in the collection, every
\* Add of it returns on the cache hit, and no admission of it waits to be
\* handed to the client.
C35_FailedDeliverySuppresses ==
    /\ Flatten(calls) = SubSeq(admitted, 1, Len(Flatten(calls)))
    /\ \A d \in {ToLower(raw) : raw \in ObservedNames} :
          Suppressed(d) =>
              /\ cache[d] > 0
              /\ ~InDomains(d)
              /\ Delivering => ~(d \in Range(SubSeq(sDomains, sI + 1, Len(sDomains))))
              /\ cpc # "idle" => ~(d \in Range(cArg))
              /\ \A p \in Procs :
                    (pc[p] \in AddPcs \ {"add_cache"} /\ ToLower(arg[p]) = d)
                        => path[p] = "hit"

\* the chunk with a.co has failed, and a source's Add of A.CO returns on the
\* cache hit while the key is in its last tick
C35_Witness ==
    /\ Suppressed(<<"a", ".", "c", "o">>)
    /\ cache[<<"a", ".", "c", "o">>] = 1
    /\ pc[Main] = "add_unlock"
    /\ arg[Main] = <<"A", ".", "C", "O">>
    /\ path[Main] = "hit"
    /\ spc = "wait"

(***************************************************************************)
(* Strings of the line-reading sources.                                    *)
(***************************************************************************)
SetMin(S) == CHOOSE x \in S : \A y \in S : x <= y
SetMax(S) == CHOOSE x \in S : \A y \in S : x >= y

\* unicode.IsSpace on the characters the lines are made of
IsSpace(c) == c \in {" ", "\t"}

\* strings.TrimSpace
TrimSpace(s) ==
    LET inked == {i \in 1..Len(s) : ~IsSpace(s[i])} IN
    IF inked = {} THEN <<>> ELSE SubSeq(s, SetMin(inked), SetMax(inked))

\* strings.Contains
Contains(s, sub) ==
    \E i \in 1..(Len(s) - Len(sub) + 1) : SubSeq(s, i, i + Len(sub) - 1) = sub

\* strings.Fields: the pieces of s between runs of white space, none empty
RECURSIVE FieldsFrom(_, _)
FieldsFrom(s, i) ==
    LET inked == {j \in i..Len(s) : ~IsSpace(s[j])} IN
    IF inked = {} THEN <<>>
    ELSE LET b == SetMin(inked)
             blanks == {j \in b..Len(s) : IsSpace(s[j])}
             e == IF blanks = {} THEN Len(s) + 1 ELSE SetMin(blanks)
         IN  <<SubSeq(s, b, e - 1)>> \o FieldsFrom(s, e)

Fields(s) == FieldsFrom(s, 1)

\* strings.TrimSuffix(field, ".")
TrimSuffix(field) ==
    IF HasSuffix(field, <<".">>) THEN SubSeq(field, 1, Len(field) - 1) ELSE field

(***************************************************************************)
(* TCPDump.Start and PCAP.Start: the loops that hand candidates to Add.    *)
(***************************************************************************)
TCPDumpProc == 1   \* the goroutine running TCPDump.Start
PCAPProc == 2      \* the goroutine running PCAP.Start

WordIP == <<"I", "P">>
WordA == <<"A", "?">>
WordAAAA == <<"A", "A", "A", "A", "?">>
WordMX == <<"M", "X", "?">>
WordARP == <<"A", "R", "P">>

\* a line of tcpdump's output, shortened: "IP 1.1 > 8.8: 5+ A? a.co. (29)"
\* becomes "IP A? a.co. (29)"
TcpdumpLine(proto, query, name) ==
    proto \o <<" ">> \o query \o <<" ">> \o name \o <<".", " ", "(", "2", "9", ")">>

\* the lines tcpdump may print
TcpdumpLines ==
    {TcpdumpLine(WordIP, WordA, name) : name \in QuestionNames}
        \cup { TcpdumpLine(WordIP, WordAAAA, <<"a", ".", "c", "o">>),
               TcpdumpLine(WordIP, WordMX, <<"a", ".", "c", "o">>),
               TcpdumpLine(WordARP, WordA, <<"a", ".", "c", "o">>),
               <<" ">> \o TcpdumpLine(WordIP, WordA, <<"a", ".", "c", "o">>) \o <<" ", "A", ".", "C", "O", ".">>,
               <<>>,
               <<" ", "\t">> }

\* the (type, name) pairs of the DNS questions PCAP may capture
QuestionTypes == {"A", "AAAA", "MX"}

\* scanner.Scan() returns a line: line := strings.TrimSpace(scanner.Text());
\* empty lines, lines without "IP" and lines with neither "A?" nor "AAAA?" are
\* passed over, the others are cut into strings.Fields(line)
TCPDumpScan(line) ==
    /\ tdFields = <<>>
    /\ pc[TCPDumpProc] = "idle"
    /\ LET l == TrimSpace(line) IN
       tdFields' = IF l = <<>> THEN <<>>
                   ELSE IF ~Contains(l, WordIP) THEN <<>>
                   ELSE IF ~Contains(l, WordA) /\ ~Contains(l, WordAAAA) THEN <<>>
                   ELSE Fields(l)
    /\ UNCHANGED <<queueVars, historyVars, callLog, extracted>>

\* for _, field := range strings.Fields(line): fields without a trailing "."
\* are passed over; field = strings.TrimSuffix(field, "."); fields the
\* validator rejects are passed over; t.queue.Add(field) takes the lock
TCPDumpField ==
    /\ tdFields # <<>>
    /\ pc[TCPDumpProc] = "idle"
    /\ tdFields' = Tail(tdFields)
    /\ IF ~HasSuffix(Head(tdFields), <<".">>)
       THEN UNCHANGED <<queueVars, historyVars, callLog, extracted>>
       ELSE /\ extracted' = extracted \cup {TrimSuffix(Head(tdFields))}
            /\ IF ~IsValidDomain(TrimSuffix(Head(tdFields)))
               THEN UNCHANGED <<queueVars, historyVars, callLog>>
               ELSE /\ AddLock(TCPDumpProc, TrimSuffix(Head(tdFields)))
                    /\ callLog' = Append(callLog, TrimSuffix(Head(tdFields)))

\* for _, question := range dns.Questions: questions of a type other than A
\* and AAAA are passed over; field := string(question.Name); names the
\* validator rejects are passed over; p.queue.Add(field) takes the lock
PCAPQuestion(qtype, name) ==
    /\ pc[PCAPProc] = "idle"
    /\ IF qtype \notin {"A", "AAAA"}
       THEN UNCHANGED <<queueVars, historyVars, callLog, extracted>>
       ELSE /\ extracted' = extracted \cup {name}
            /\ IF ~IsValidDomain(name)
               THEN UNCHANGED <<queueVars, historyVars, callLog>>
               ELSE /\ AddLock(PCAPProc, name)
                    /\ callLog' = Append(callLog, name)
    /\ UNCHANGED tdFields

(***************************************************************************)
(* Sources scenario: TCPDump and PCAP run on their own goroutines and feed *)
(* the fresh queue until MaxLines candidates have been handed to Add.      *)
(***************************************************************************)
othersOfSources ==
    <<obs, sent, clientVars, submitterVars, subfinderVars, mikrotikVars, runVars, validatorVars, memoryVars>>

TcpdumpPrints(line) ==
    /\ Len(callLog) < MaxLines
    /\ TCPDumpScan(line)
    /\ UNCHANGED othersOfSources

TcpdumpField == TCPDumpField /\ UNCHANGED othersOfSources

PcapCaptures(qtype, name) ==
    /\ Len(callLog) < MaxLines
    /\ PCAPQuestion(qtype, name)
    /\ UNCHANGED othersOfSources

CapturedStep(p) ==
    /\ \/ AddCheck(p)
       \/ AddScan(p)
       \/ AddAppend(p)
       \/ AddStore(p)
       \/ AddSetEx(p)
       \/ AddUnlock(p)
    /\ UNCHANGED <<obs, scenarioVars>>

NextSources ==
    \/ \E line \in TcpdumpLines : TcpdumpPrints(line)
    \/ TcpdumpField
    \/ \E qtype \in QuestionTypes : \E name \in QuestionNames : PcapCaptures(qtype, name)
    \/ \E p \in {TCPDumpProc, PCAPProc} : CapturedStep(p)

SpecSources == Init /\ [][NextSources]_vars

\* Add would admit the candidate if cache and collection did not hold it yet
AddWouldAdmit(c) == IsValidDomain(ToLower(c))

\* C24: every candidate a source has extracted (after the trim of the
\* trailing dot) that Add would admit after its own lowercasing and validation
\* has been handed to queue.Add by the time the source goes on to the next
\* field; the source drops no such candidate.
C24_ValidationCentralized ==
    \A c \in extracted : AddWouldAdmit(c) => c \in Range(callLog)

\* [a-z0-9-]{1,63}, neither starting nor ending with "-"
AdmissibleLabel(t) ==
    /\ Len(t) >= 1
    /\ Len(t) <= 63
    /\ \A i \in 1..Len(t) : t[i] \in Range(Lower) \cup Digits \cup {"-"}
    /\ t[1] # "-"
    /\ t[Len(t)] # "-"

\* an admissible domain name in canonical form
Admissible(d) ==
    /\ d = ToLower(d)
    /\ Len(d) >= 3
    /\ Len(d) <= 253
    /\ Len(Split(d)) >= 2
    /\ ~HasSuffix(d, DotLocal)
    /\ ~HasSuffix(d, DotLocalhost)
    /\ \A i \in 1..Len(Split(d)) : AdmissibleLabel(Split(d)[i])

\* C27: every entry of the collection and every key the queue has written to
\* the cache is an admissible domain name in lowercase.
C27_AdmissibleEntries ==
    /\ \A i \in 1..Len(Domains) : Admissible(Domains[i])
    /\ \A i \in 1..Len(setexLog) : Admissible(setexLog[i][1])

(***************************************************************************)
(* MikrotikLog: Start, and the ingestion loop, which is in Stop.           *)
(***************************************************************************)
WordQueryFrom == <<"q", "u", "e", "r", "y", " ", "f", "r", "o", "m">>
WordResponseTo == <<"r", "e", "s", "p", "o", "n", "s", "e", " ", "t", "o">>

\* a line of the router's log, shortened: "Jan 01 12:00:00 dns,packet query
\* from 192.168.1.1#54321: test1.com. A" becomes "query from 1#5: a.co. A"
MikrotikLine(what, name) ==
    what \o <<" ", "1", "#", "5", ":", " ">> \o name \o <<".", " ", "A">>

\* the lines a log file is made of
MikrotikLines ==
    { MikrotikLine(WordQueryFrom, <<"a", ".", "c", "o">>),
      MikrotikLine(WordQueryFrom, <<"x", "b", ".", "i", "o">>),
      MikrotikLine(WordResponseTo, <<"a", ".", "c", "o">>),
      MikrotikLine(WordQueryFrom, <<"a", "b", "c">>),
      <<>> }

\* the file at m.logFile: it does not exist, or it holds up to MaxLines lines
LogFiles ==
    {[exists |-> FALSE, lines |-> <<>>]}
        \cup {[exists |-> TRUE, lines |-> l] :
                 l \in UNION {[1..n -> MikrotikLines] : n \in 0..MaxLines}}

\* MikrotikLog.Start: sets the default log file, reads nothing, returns nil
MikrotikStart ==
    /\ mkpc = "new"
    /\ mkpc' = "started"
    /\ UNCHANGED <<logFile, mkLine, mkFields>>

\* Stop: f, err := os.Open(m.logFile); if err != nil { return err }
MikrotikOpen ==
    /\ mkpc = "stopping"
    /\ mkpc' = IF logFile.exists THEN "scan" ELSE "failed"
    /\ mkLine' = 0
    /\ UNCHANGED <<logFile, mkFields>>

\* Stop: for scanner.Scan(): at the end of the file Stop returns nil;
\* line := strings.TrimSpace(scanner.Text()); empty lines and lines without
\* "query from" are passed over, the others are cut into strings.Fields(line)
MikrotikScan ==
    /\ mkpc = "scan"
    /\ mkFields = <<>>
    /\ pc[Main] = "idle"
    /\ IF mkLine = Len(logFile.lines)
       THEN /\ mkpc' = "stopped"
            /\ UNCHANGED <<mkLine, mkFields>>
       ELSE /\ mkLine' = mkLine + 1
            /\ LET l == TrimSpace(logFile.lines[mkLine + 1]) IN
               mkFields' = IF l = <<>> THEN <<>>
                           ELSE IF ~Contains(l, WordQueryFrom) THEN <<>>
                           ELSE Fields(l)
            /\ UNCHANGED mkpc
    /\ UNCHANGED logFile

\* Stop: for _, field := range strings.Fields(line): fields without a
\* trailing "." are passed over; field = strings.TrimSuffix(field, ".");
\* fields the validator rejects are passed over; m.queue.Add(field) takes
\* the lock
MikrotikField ==
    /\ mkpc = "scan"
    /\ mkFields # <<>>
    /\ pc[Main] = "idle"
    /\ mkFields' = Tail(mkFields)
    /\ IF ~HasSuffix(Head(mkFields), <<".">>)
       THEN UNCHANGED <<queueVars, historyVars, extracted>>
       ELSE /\ extracted' = extracted \cup {TrimSuffix(Head(mkFields))}
            /\ IF ~IsValidDomain(TrimSuffix(Head(mkFields)))
               THEN UNCHANGED <<queueVars, historyVars>>
               ELSE AddLock(Main, TrimSuffix(Head(mkFields)))
    /\ UNCHANGED <<logFile, mkpc, mkLine>>

(***************************************************************************)
(* utils.Run                                                               *)
(***************************************************************************)
SourceKinds == {"tcpdump", "pcap", "mikrotik", "subfinder"}

\* the source lists main may hand to Run: distinct sources, in any order
SourceLists ==
    {l \in UNION {[1..n -> SourceKinds] : n \in 1..MaxSources} :
        \A i \in 1..Len(l) : \A j \in 1..Len(l) : i # j => l[i] # l[j]}

\* the source whose Stop the loop of Run is in
Stopping == sourceList[rI]

\* <-ctx.Done(): the interrupt signal has arrived;
\* ctx, cancel := context.WithTimeout(context.Background(), ShutdownTimeout)
RunSignal ==
    /\ rpc = "wait"
    /\ rpc' = "loop"
    /\ UNCHANGED <<sourceList, rI, expired, mikrotikVars>>

\* ShutdownTimeout has passed since the context was made
DeadlinePasses ==
    /\ rpc \in {"loop", "stop"}
    /\ ~expired
    /\ expired' = TRUE
    /\ UNCHANGED <<sourceList, rpc, rI, mikrotikVars>>

\* for _, s := range sourceList { s.Stop(ctx): the loop is over and Run
\* returns, or Stop is invoked on the next source
RunLoop ==
    /\ rpc = "loop"
    /\ IF rI = Len(sourceList)
       THEN /\ rpc' = "returned"
            /\ UNCHANGED <<rI, mikrotikVars>>
       ELSE /\ rpc' = "stop"
            /\ rI' = rI + 1
            /\ IF sourceList[rI + 1] = "mikrotik"
               THEN mkpc' = "stopping" /\ UNCHANGED <<logFile, mkLine, mkFields>>
               ELSE UNCHANGED mikrotikVars
    /\ UNCHANGED <<sourceList, expired>>

\* TCPDump.Stop and PCAP.Stop: log a message, return nil
PlaceholderStop ==
    /\ rpc = "stop"
    /\ Stopping \in {"tcpdump", "pcap"}
    /\ rpc' = "loop"
    /\ UNCHANGED <<sourceList, rI, expired, mikrotikVars>>

\* Source.Stop of Subfinder: s.cancelFunc(); select: the goroutines are done,
\* or ctx.Done() once the deadline has passed; return nil in both cases
SubfinderStop(timeout) ==
    /\ rpc = "stop"
    /\ Stopping = "subfinder"
    /\ timeout => expired
    /\ rpc' = "loop"
    /\ UNCHANGED <<sourceList, rI, expired, mikrotikVars>>

\* MikrotikLog.Stop has returned: if err := s.Stop(ctx); err != nil {
\* logger.Fatal() ... } ends the process
MikrotikStopReturns ==
    /\ rpc = "stop"
    /\ Stopping = "mikrotik"
    /\ mkpc \in {"stopped", "failed"}
    /\ rpc' = IF mkpc = "failed" THEN "fatal" ELSE "loop"
    /\ UNCHANGED <<sourceList, rI, expired, mikrotikVars>>

(***************************************************************************)
(* Shutdown scenario: Run is handed any list of distinct sources; the log  *)
(* file of MikrotikLog is missing or holds up to MaxLines lines.           *)
(***************************************************************************)
InitShutdown ==
    /\ Fresh
    /\ Domains = <<>>
    /\ admitted = <<>>
    /\ apiURL = NewDomainsProjectClient("")
    /\ vIn = <<>>
    /\ sourceList \in SourceLists
    /\ logFile \in LogFiles

othersOfShutdown ==
    <<obs, callLog, sent, clientVars, submitterVars, subfinderVars, tdFields, validatorVars, memoryVars>>

\* Start is called on the MikrotikLog source, before Run reaches its Stop
SourceStarts ==
    /\ "mikrotik" \in Range(sourceList)
    /\ MikrotikStart
    /\ UNCHANGED <<queueVars, historyVars, extracted, runVars, othersOfShutdown>>

Interrupt ==
    /\ RunSignal
    /\ UNCHANGED <<queueVars, historyVars, extracted, othersOfShutdown>>

TimeIsUp ==
    /\ DeadlinePasses
    /\ UNCHANGED <<queueVars, historyVars, extracted, othersOfShutdown>>

\* the steps of Run itself and of the Stops that read nothing
RunStep ==
    /\ \/ RunLoop
       \/ PlaceholderStop
       \/ \E timeout \in BOOLEAN : SubfinderStop(timeout)
       \/ MikrotikStopReturns
    /\ UNCHANGED <<queueVars, historyVars, extracted, othersOfShutdown>>

\* the reads of the log file inside MikrotikLog.Stop
FileStep ==
    /\ \/ MikrotikOpen
       \/ MikrotikScan
    /\ UNCHANGED <<queueVars, historyVars, extracted, runVars, othersOfShutdown>>

FieldStep ==
    /\ MikrotikField
    /\ UNCHANGED <<runVars, othersOfShutdown>>

\* the steps of the Add that MikrotikLog.Stop is in
IngestStep ==
    /\ \/ AddCheck(Main)
       \/ AddScan(Main)
       \/ AddAppend(Main)
       \/ AddStore(Main)
       \/ AddSetEx(Main)
       \/ AddUnlock(Main)
    /\ UNCHANGED <<obs, scenarioVars>>

NextShutdown ==
    \/ SourceStarts
    \/ Interrupt
    \/ TimeIsUp
    \/ RunStep
    \/ FileStep
    \/ FieldStep
    \/ IngestStep

SpecShutdown == InitShutdown /\ [][NextShutdown]_vars

\* The goroutine of Run takes its steps and time passes; how long a read of
\* the log file takes is up to the file system.
SpecShutdownLive ==
    /\ InitShutdown
    /\ [][NextShutdown]_vars
    /\ WF_vars(RunStep)
    /\ WF_vars(FieldStep)
    /\ WF_vars(IngestStep)
    /\ WF_vars(TimeIsUp)

\* Run has returned, or has ended the process
RunOver == rpc \in {"returned", "fatal"}

\* C21: when Run is over, Stop has been invoked on every source of
\* sourceList, whatever the Stop calls on the other sources returned.
C21_ShutdownReachesEverySource ==
    RunOver => rI = Len(sourceList)

\* C22: once the shutdown signal has arrived, Run is eventually over, also
\* when a Stop does not return by the deadline.
C22_ShutdownCannotHang ==
    (rpc # "wait") ~> RunOver

\* a step on which a Stop does work: reads a line or hands a field to Add
StopWorks == mkLine' # mkLine \/ (pc[Main] = "idle" /\ pc'[Main] # "idle")

\* C23: once the deadline of the context has passed, no Stop does any further
\* work.
C23_StopDeadlineBounded ==
    [][expired => ~StopWorks]_vars

\* the valid names in the dot-terminated fields of a line with "query from"
NamesOfLine(line) ==
    LET l == TrimSpace(line) IN
    IF l = <<>> \/ ~Contains(l, WordQueryFrom) THEN {}
    ELSE {TrimSuffix(Fields(l)[i]) : i \in {j \in 1..Len(Fields(l)) :
              /\ HasSuffix(Fields(l)[j], <<".">>)
              /\ IsValidDomain(TrimSuffix(Fields(l)[j]))}}

NamesOfFile(file) == UNION {NamesOfLine(file.lines[i]) : i \in 1..Len(file.lines)}

\* C25: while MikrotikLog is running, after Start and before any Stop, the
\* queue holds exactly the valid names in the dot-terminated fields of the log
\* file's lines that contain "query from".
C25_MikrotikIngestsInStart ==
    mkpc = "started" => Range(Domains) = NamesOfFile(logFile)

(***************************************************************************)
(* The validator on its own: IsValidDomain is called once with any string  *)
(* of up to MaxInputLen characters, or with one of the longer names below. *)
(***************************************************************************)
\* the characters the short inputs are made of
InputChars == {"a", "A", ".", "-"}

ShortInputs == UNION {[1..n -> InputChars] : n \in 0..MaxInputLen}

\* a name of n characters made of labels of MaxLabelLen characters and a
\* shorter last label: "aaa...a.aaa...a. ... .aaa"
LongName(n) ==
    [i \in 1..n |-> IF i % (MaxLabelLen + 1) = 0 THEN "." ELSE "a"]

\* names around the upper length limit
LongInputs == {LongName(n) : n \in (MaxDomainLen - 1)..(MaxDomainLen + 2)}

\* names with a reserved suffix, and names that only contain a DNS name
OtherInputs ==
    { <<"x">> \o DotLocal,
      <<"x">> \o DotLocalhost,
      <<"a", ".", "b">> \o DotLocal,
      <<"a", ".", "c", "o">> \o DotLocalhost,
      <<>> \o DotLocal,
      <<"l", "o", "c", "a", "l">>,
      <<"a", ".", "c", "o">>,
      <<"_", "a", ".", "c", "o">>,
      <<"a", ".", "c", "o", ".">>,
      <<"e", "x", "a", "m", "p", "l", "e">> }

ValidatorInputs == ShortInputs \cup LongInputs \cup OtherInputs

InitValidator ==
    /\ Fresh
    /\ Domains = <<>>
    /\ admitted = <<>>
    /\ apiURL = NewDomainsProjectClient("")
    /\ logFile = <<>>
    /\ sourceList = <<>>
    /\ vIn \in ValidatorInputs

\* IsValidDomain(vIn) is called and returns
Validate ==
    /\ vOut = <<>>
    /\ vOut' = <<IsValidDomain(vIn)>>
    /\ UNCHANGED <<queueVars, historyVars, obs, callLog, sent>>
    /\ UNCHANGED <<clientVars, submitterVars, subfinderVars>>
    /\ UNCHANGED <<sourceVars, mikrotikVars, runVars, memoryVars, vIn>>

NextValidator == Validate

SpecValidator == InitValidator /\ [][NextValidator]_vars

\* C26: IsValidDomain returns false for every string shorter than 3 or longer
\* than 253 characters, for every string ending in ".local" or ".localhost"
\* and for every string without a "."; when it returns true, some part of the
\* string matches the DNS-name pattern of IsDomain.
C26_ValidatorRejections ==
    vOut # <<>> =>
        /\ (Len(vIn) < 3 \/ Len(vIn) > 253) => vOut = <<FALSE>>
        /\ (HasSuffix(vIn, DotLocal) \/ HasSuffix(vIn, DotLocalhost)) => vOut = <<FALSE>>
        /\ "." \notin Range(vIn) => vOut = <<FALSE>>
        /\ vOut = <<TRUE>> => IsDomain(vIn)

\* a well-formed name of 254 characters is rejected, for its length alone
C26_Witness ==
    /\ vOut = <<FALSE>>
    /\ Len(vIn) = 254
    /\ IsDomain(vIn)
    /\ IsValidDomain(SubSeq(vIn, 2, Len(vIn)))

(***************************************************************************)
(* The queue in memory: q.Domains is a slice header over a backing array,  *)
(* append writes in place while len < cap, the result of Get is a slice    *)
(* header in the hands of its receiver. The calls are serialised by the    *)
(* mutex, so each is one step here.                                        *)
(***************************************************************************)
\* the elements a slice header gives access to, over the arrays h
Deref(h, sl) == IF sl.arr = 0 THEN <<>> ELSE SubSeq(h[sl.arr], 1, sl.len)

\* the capacity append gives the array it allocates for one more element
GrowCap(cap) == IF cap = 0 THEN 1 ELSE 2 * cap

\* an unwritten cell of an array of strings
ZeroCell == <<>>

\* append(q.Domains, domain): in place if there is room, else into a new array
\* to which the elements are copied; the arrays and the header afterwards
AppendTo(h, sl, d) ==
    IF sl.len < sl.cap
    THEN [heap |-> [h EXCEPT ![sl.arr] = [@ EXCEPT ![sl.len + 1] = d]],
          slice |-> [sl EXCEPT !.len = @ + 1]]
    ELSE [heap |-> Append(h, [i \in 1..GrowCap(sl.cap) |->
                                 IF i <= sl.len THEN h[sl.arr][i]
                                 ELSE IF i = sl.len + 1 THEN d ELSE ZeroCell]),
          slice |-> [arr |-> Len(h) + 1, len |-> sl.len + 1, cap |-> GrowCap(sl.cap)]]

\* DomainQueue.Add, from Lock to Unlock
MemAdd(raw) ==
    LET d == ToLower(raw)
        admits == ~CacheGet(d) /\ IsValidDomain(d) /\ ~(d \in Range(Deref(heap, qd)))
        after == AppendTo(heap, qd, d)
    IN  /\ heap' = IF admits THEN after.heap ELSE heap
        /\ qd' = IF admits THEN after.slice ELSE qd
        /\ Domains' = Deref(heap', qd')
        /\ cache' = IF admits THEN CacheSetEx(d, CacheTTL) ELSE cache
        /\ setexLog' = IF admits THEN Append(setexLog, <<d, CacheTTL>>) ELSE setexLog
        /\ admitted' = IF admits THEN Append(admitted, d) ELSE admitted
        /\ epochAdm' = IF admits THEN [epochAdm EXCEPT ![d] = @ + 1] ELSE epochAdm
        /\ UNCHANGED <<Lock, cacheUp, pc, arg, domain, tmp, ret>>
        /\ UNCHANGED <<snap, path, drained, gets, lastCut, span>>
        /\ UNCHANGED <<held, heldVal>>

\* variant: Get returns q.Domains itself and keeps the array for the next
\* appends: domains := q.Domains; q.Domains = q.Domains[:0]
MemGetShared ==
    /\ held' = qd
    /\ heldVal' = Deref(heap, qd)
    /\ qd' = [qd EXCEPT !.len = 0]
    /\ heap' = heap
    /\ Domains' = <<>>
    /\ drained' = drained \o Deref(heap, qd)
    /\ gets' = gets + 1
    /\ lastCut' = Len(admitted)
    /\ UNCHANGED <<Lock, cache, cacheUp, pc, arg, domain, tmp, ret>>
    /\ UNCHANGED <<snap, path, admitted, span, epochAdm, setexLog>>

\* DomainQueue.Get, from Lock to Unlock: domains := make([]string,
\* len(q.Domains)); copy(domains, q.Domains); q.Domains = nil; return domains
MemGet ==
    /\ heap' = Append(heap, CopyOf(Deref(heap, qd)))
    /\ held' = [arr |-> Len(heap) + 1, len |-> qd.len, cap |-> qd.len]
    /\ heldVal' = Deref(heap', held')
    /\ qd' = NilSlice
    /\ Domains' = Deref(heap', qd')
    /\ drained' = drained \o Deref(heap', held')
    /\ gets' = gets + 1
    /\ lastCut' = Len(admitted)
    /\ UNCHANGED <<Lock, cache, cacheUp, pc, arg, domain, tmp, ret>>
    /\ UNCHANGED <<snap, path, admitted, span, epochAdm, setexLog>>

\* DomainQueue.Count, from Lock to Unlock: return len(q.Domains)
MemCount ==
    /\ ret' = [ret EXCEPT ![Main] = qd.len]
    /\ UNCHANGED <<Domains, Lock, cache, cacheUp, pc, arg, domain, tmp>>
    /\ UNCHANGED historyVars
    /\ UNCHANGED memoryVars

\* what the receiver of a drained sequence may write into it
Scribble == <<"z">>

\* the receiver of the drained sequence overwrites element i: domains[i] = ...
ReceiverWrites(i) ==
    /\ i \in 1..held.len
    /\ heap' = [heap EXCEPT ![held.arr] = [@ EXCEPT ![i] = Scribble]]
    /\ heldVal' = [heldVal EXCEPT ![i] = Scribble]
    /\ Domains' = Deref(heap', qd)
    /\ UNCHANGED <<Lock, cache, cacheUp, pc, arg, domain, tmp, ret>>
    /\ UNCHANGED historyVars
    /\ UNCHANGED <<qd, held>>

\* the names handed to Add in the memory scenario: four valid ones, a second
\* spelling and an invalid one
MemoryNames ==
    { <<"a",".","c","o">>,
      <<"A",".","C","O">>,
      <<"X","b",".","i","o">>,
      <<"a","b","c">>,
      ProducerDomain(1, 0),
      ProducerDomain(1, 1) }

othersOfMemory ==
    <<obs, callLog, sent, clientVars, submitterVars, subfinderVars,
      sourceVars, mikrotikVars, runVars, validatorVars>>

MemoryAdd(raw) ==
    /\ Len(admitted) < MaxAppends
    /\ MemAdd(raw)
    /\ UNCHANGED othersOfMemory

MemoryGet ==
    /\ gets < MaxGets
    /\ MemGet
    /\ UNCHANGED othersOfMemory

MemoryCount == MemCount /\ UNCHANGED othersOfMemory

MemoryWrite ==
    /\ \E i \in 1..MaxAppends : ReceiverWrites(i)
    /\ UNCHANGED othersOfMemory

NextMemory ==
    \/ \E raw \in MemoryNames : MemoryAdd(raw)
    \/ MemoryGet
    \/ MemoryCount
    \/ MemoryWrite

SpecMemory == Init /\ [][NextMemory]_vars

\* C33: the sequence Get returned holds what it held on return, whatever Add,
\* Get and Count calls came later, and the queue's collection holds the
\* admissions since the latest Get, whatever its receiver has written into the
\* returned sequence: the two never share an array.
C33_DrainIndependentCopy ==
    /\ Deref(heap, held) = heldVal
    /\ Deref(heap, qd) = SubSeq(admitted, lastCut + 1, Len(admitted))
    /\ Domains = Deref(heap, qd)
    /\ (held.arr # 0 /\ qd.arr # 0) => held.arr # qd.arr

\* the receiver has overwritten an element of a drained sequence of two; two
\* admissions and a Count have followed the Get
C33_Witness ==
    /\ held.len = 2
    /\ Scribble \in Range(heldVal)
    /\ qd.len = 2
    /\ qd.cap = 2
    /\ ret[Main] = 1

(***************************************************************************)
(* Subfinder scenario: the source has been started, a packet source adds   *)
(* names, time passes, and utils.Run, handed the Subfinder source alone,   *)
(* stops it after the interrupt signal.                                    *)
(***************************************************************************)
\* the names the packet source observes: a parent and one of its subdomains
SubfinderNames == {<<"a", ".", "c", "o">>, <<"w", ".", "a", ".", "c", "o">>}

InitSubfinder ==
    /\ Fresh
    /\ Domains = <<>>
    /\ admitted = <<>>
    /\ apiURL = NewDomainsProjectClient("")
    /\ vIn = <<>>
    /\ logFile = <<>>
    /\ sourceList = <<"subfinder">>

restOfSubfinder ==
    <<obs, callLog, sent, clientVars, submitterOwn, sourceVars, validatorVars, memoryVars>>

\* processDomains' ticker fires
SubfinderSweep ==
    /\ sweeps < MaxRounds
    /\ SubfinderTick
    /\ UNCHANGED <<restOfSubfinder, mikrotikVars, runVars>>

\* the steps of Subfinder's goroutines inside the queue
SubfinderQueueStep ==
    /\ \/ SubfinderGet
       \/ SubfinderGot
       \/ \E host \in DiscoverHosts : SubfinderFound(host)
       \/ SubfinderFoundStep
       \/ SubfinderReAdd
       \/ SubfinderReAddStep
    /\ UNCHANGED <<restOfSubfinder, mikrotikVars, runVars>>

\* the steps of Subfinder's goroutines outside the queue, and the passing of
\* time
SubfinderOwnStep ==
    /\ \/ SubfinderLoop
       \/ EnumerationDone
       \/ SubfinderMark
       \/ ProcessedAge
       \/ CleanupCache
    /\ UNCHANGED <<queueVars, historyVars, restOfSubfinder, mikrotikVars, runVars>>

\* the goroutines of the source return once the context is cancelled
SubfinderExitStep ==
    /\ \/ SubfinderExit
       \/ CleanupExit
    /\ UNCHANGED <<queueVars, historyVars, restOfSubfinder, mikrotikVars, runVars>>

\* the loop of Run: it invokes Stop on the Subfinder source, which cancels
\* the context first, or it is over and Run returns
SubfinderStopInvoked ==
    /\ RunLoop
    /\ IF rI < Len(sourceList)
       THEN SubfinderCancel
       ELSE UNCHANGED <<subfinderVars, getters>>
    /\ UNCHANGED <<queueVars, historyVars, restOfSubfinder>>

\* Stop returns to Run, through either case of its select
SubfinderStopReturns ==
    /\ \E timeout \in BOOLEAN : SubfinderStop(timeout) /\ SubfinderWaited(timeout)
    /\ UNCHANGED <<queueVars, historyVars, restOfSubfinder>>

\* the source at work, before any signal
NextEnumerate ==
    \/ \E raw \in SubfinderNames : SourceAdd(raw)
    \/ SourceStep
    \/ SubfinderSweep
    \/ SubfinderQueueStep
    \/ SubfinderOwnStep

SpecEnumerate == InitSubfinder /\ [][NextEnumerate]_vars

NextSubfinder ==
    \/ NextEnumerate
    \/ SubfinderExitStep
    \/ Interrupt
    \/ TimeIsUp
    \/ SubfinderStopInvoked
    \/ SubfinderStopReturns

SpecSubfinder == InitSubfinder /\ [][NextSubfinder]_vars

\* the parent domain of the domain processDomains' loop is at
ParentAtHand == GetParentDomain(Head(sfDomains))

\* C37: whenever discoverSubdomains is started for a parent domain, that parent
\* has never been marked as processed, or its latest markProcessed is at least
\* cacheTTL old; this holds for every domain of a drained batch, also for a
\* subdomain that follows its parent in the batch.
C37_EnumerationOncePerTTL ==
    [][(sfpc = "loop" /\ sfpc' = "discover")
        => (sinceMark[ParentAtHand] = Unmarked \/ sinceMark[ParentAtHand] >= SubfinderTTL)]_vars

\* a drained batch holds a parent that has just been enumerated and marked and
\* then one of its subdomains, which the loop is about to skip
C37_Witness ==
    /\ sfpc = "loop"
    /\ sfDomains # <<>>
    /\ Head(sfDomains) # ParentAtHand
    /\ sinceMark[ParentAtHand] \in 0..(SubfinderTTL - 1)
    /\ IsRecentlyProcessed(ParentAtHand)
    /\ <<ParentAtHand, Head(sfDomains)>> = SubSeq(drained, Len(drained) - 1, Len(drained))

\* C38: once Stop has returned through its "stopped successfully" case, no
\* enumeration of the source is running and neither of its goroutines is
\* inside a call of the queue.
C38_QuiescentAfterStop ==
    sfStopped = "ok"
        => (enumLive = 0 /\ pc[EnumProc] = "idle" /\ pc[SubfinderProc] = "idle")

====
